---- MODULE Spec2Model ----
(***************************************************************************)
(* Model of the cmtj-cursor coding agent: the main flow of src/flow.py     *)
(* (decision engine, action executors, edit sub-flow, validate/fix loop,   *)
(* response formatter) as it is driven by main.interactive.                *)
(*                                                                         *)
(* Python values are modelled as follows.                                  *)
(*   - None is the record NoneVal; a dict is a function whose DOMAIN is    *)
(*     the set of its keys; dict.get(k) of a missing key is the empty      *)
(*     value of the key's type (both are falsy in every test of the code). *)
(*   - A text the code indexes by character (code, the LLM's fix) is a     *)
(*     sequence of one-character strings.                                  *)
(*   - A file content is [lines, nl]: its lines and whether the text ends  *)
(*     with a newline, so that len(content.split("\n")) can be computed.   *)
(*   - result["code_content"], a str after Validate and a dict after Fix,  *)
(*     holds the str as the record StrVal(s).                              *)
(***************************************************************************)
EXTENDS Integers, Sequences, FiniteSets, TLC

VARIABLES
    node,         \* the node Flow._orch runs next; "idle", "stopped", "error" outside a run
    prev,         \* the node that ran last
    last_action,  \* the label its post returned ("" for None)
    history,      \* shared["history"]
    response,     \* shared["response"]
    scratch,      \* the other keys of shared, each of which may be absent: edit_operations
                  \* and edit_reasoning in the main flow, user_query, all_queries,
                  \* query_breakdown, search_results, web_search_results in the QA flow
    file,         \* content on disk of the file the edit tools target
    runs,         \* number of coding_agent_flow.run calls so far
    run_base,     \* len(shared["history"]) when the current run was started
    plan_calls,   \* the call_llm calls of the last plan step: use_cache flag, response,
                  \* whether the cache answered (hit) and whether the cache was written
    llm_cache,    \* llm_cache.json: cache key -> response text
    decision_calls, \* the LLM's responses to the prompts of the last decision round
    process,      \* what the candidate code executed so far has left behind in the
                  \* process and its working directory
    workdir,      \* the working directory: whether it has a .gitignore that can be read,
                  \* the files os.walk yields, the name of its API source tree
    qa_flow,      \* the flow qa_agent has built: its allow_web_search argument and the
                  \* successors dict of each node
    API_DOC_STRINGS, \* the module global of utils/search_ops.py: the API doc index
    util_calls,   \* the calls made outside the nodes of the main flow so far (utility
                  \* functions called directly, exec calls of the QA flow's nodes), with
                  \* the arguments and the outcome of each call
    apply         \* ApplyChangesNode's batch: prep_res (ops), position, exec_res_list (res),
                  \* the file before the batch, the operations applied so far

vars ==
    <<node, prev, last_action, history, response, scratch, file, runs, run_base, plan_calls,
      llm_cache, decision_calls, process, workdir, qa_flow, API_DOC_STRINGS, util_calls,
      apply>>

----------------------------------------------------------------------------
(* Bounds *)

MaxHistory == 3
MaxRuns == 2
MaxLines == 3
MaxOps == 2
MaxTokens == 4

(* Program constants *)

DEFAULT_RETRIES == 2

\* grep_search stops at this many matches
GrepLimit == 50

\* max_results of search_api_docstrings_regex
MaxResults == 50

----------------------------------------------------------------------------
(* Python values *)

NoneVal == [py_none |-> TRUE]

Get(d, k, empty) == IF k \in DOMAIN d THEN d[k] ELSE empty

Put(d, k, v) == [x \in DOMAIN d \cup {k} |-> IF x = k THEN v ELSE d[x]]

Pop(d, k) == [x \in DOMAIN d \ {k} |-> d[x]]

EmptyDict == [x \in {} |-> NoneVal]

\* qa_agent has not been called
NoFlow == [allow_web_search |-> FALSE, successors |-> EmptyDict]

Last(s) == s[Len(s)]

\* a str stored in a field that another node fills with a dict
StrVal(s) == [str |-> s]

\* a bool stored in a field that another path fills with a str
BoolVal(b) == [bool |-> b]

\* history[-1]["result"] = r
SetLastResultMut(h, r) == h

SetFirstResultMut(h, r) == [h EXCEPT ![1].result = r]

SetLastResult(h, r) == [h EXCEPT ![Len(h)].result = r]

----------------------------------------------------------------------------
(* The flow graph *)

SuccessorsMut ==
    [ main_agent |-> [ validate_code |-> "compile_file_node",
                       create_new_file |-> "create_new_file",
                       read_file |-> "read_action",
                       grep_search |-> "grep_action",
                       list_dir |-> "list_dir_action",
                       edit_file |-> "edit_agent",
                       search_api_docstrings_regex |-> "docstring_node",
                       finish |-> "format_response" ],
      compile_file_node |-> [ compilation_error |-> "fix_code_node",
                              compilation_success |-> "main_agent" ],
      fix_code_node |-> [ default |-> "compile_file_node" ],
      read_action |-> [ default |-> "format_response" ],
      grep_action |-> [ default |-> "main_agent" ],
      list_dir_action |-> [ default |-> "main_agent" ],
      edit_agent |-> [ default |-> "main_agent" ],
      create_new_file |-> [ default |-> "main_agent" ],
      docstring_node |-> [ default |-> "main_agent" ],
      format_response |-> EmptyDict,
      read_target |-> [ default |-> "analyze_plan" ],
      analyze_plan |-> [ default |-> "apply_changes" ],
      apply_changes |-> EmptyDict ]

\* a graph in which the formatter has a successor for the label it returns
SuccessorsLoopMut ==
    [SuccessorsMut EXCEPT !.read_action = [default |-> "main_agent"],
                          !.format_response = [done |-> "main_agent"]]

\* successors of every node, keyed by the label its post returns
Successors ==
    [ main_agent |-> [ validate_code |-> "compile_file_node",
                       create_new_file |-> "create_new_file",
                       read_file |-> "read_action",
                       grep_search |-> "grep_action",
                       list_dir |-> "list_dir_action",
                       edit_file |-> "edit_agent",
                       search_api_docstrings_regex |-> "docstring_node",
                       finish |-> "format_response" ],
      compile_file_node |-> [ compilation_error |-> "fix_code_node",
                              compilation_success |-> "main_agent" ],
      fix_code_node |-> [ default |-> "compile_file_node" ],
      read_action |-> [ default |-> "main_agent" ],
      grep_action |-> [ default |-> "main_agent" ],
      list_dir_action |-> [ default |-> "main_agent" ],
      edit_agent |-> [ default |-> "main_agent" ],
      create_new_file |-> [ default |-> "main_agent" ],
      docstring_node |-> [ default |-> "main_agent" ],
      format_response |-> EmptyDict,
      read_target |-> [ default |-> "analyze_plan" ],
      analyze_plan |-> [ default |-> "apply_changes" ],
      apply_changes |-> EmptyDict ]

\* the nodes of the edit sub-flow (create_edit_agent) and its start node
EditNodes == {"read_target", "analyze_plan", "apply_changes"}

EditStart == "read_target"

\* Flow.get_next_node as the main flow uses it: successors.get(action or "default");
\* "stopped" when there is none
GetNextNodeMut(curr, action) ==
    IF "default" \in DOMAIN Successors[curr] THEN Successors[curr]["default"] ELSE "stopped"

GetNextNode(curr, action) ==
    LET a == IF action = "" THEN "default" ELSE action
    IN  IF a \in DOMAIN Successors[curr] THEN Successors[curr][a] ELSE "stopped"

\* the node that runs after curr returned action: a node of the edit sub-flow without
\* successor ends the sub-flow, whose own successor is looked up with the same label;
\* entering the sub-flow runs its start node
NextNode(curr, action) ==
    LET inner == GetNextNode(curr, action)
        outer == IF curr \in EditNodes /\ inner = "stopped"
                 THEN GetNextNode("edit_agent", action)
                 ELSE inner
    IN  IF outer = "edit_agent" THEN EditStart ELSE outer

\* a node ran to completion and its post returned action
Goto(curr, action) ==
    /\ node' = NextNode(curr, action)
    /\ prev' = curr
    /\ last_action' = action

\* an exception that is swallowed: the node ends as if post had returned None
RaiseMut(curr) == Goto(curr, "")

\* an exception left the node: Flow.run propagates it to the caller
Raise(curr) ==
    /\ node' = "error"
    /\ prev' = curr
    /\ last_action' = ""

----------------------------------------------------------------------------
(* Candidate code and its validation (utils/compile_ops.py) *)

\* what compiling and executing a code text does is given by its first character:
\*   "v" runs cleanly (so does the empty text)
\*   "s" does not compile (SyntaxError)
\*   "i" raises ImportError for a missing module that is no display library (numpy)
\*   "q" raises ImportError for a missing GUI library whose name holds none of
\*       matplotlib, display, gui, tkinter (PyQt5)
\*   "m" raises ImportError naming matplotlib
\*   "d" raises an exception of a display library whose message names the display
\*   "n" raises an exception that has nothing to do with a display and whose message
\*       holds one of display, gui, x11, tkinter, qt, show (NameError: name 'show')
\*   "x" raises SystemExit, which is no Exception (sys.exit(1))
\*   "k" creates a directory: runs cleanly when the directory is not there, raises
\*       FileExistsError when it is
\*   any other character: raises another Exception
OutcomeChars == {"v", "s", "i", "q", "m", "d", "n", "x", "k", "r"}

Outcome(code) ==
    IF Len(code) = 0 THEN "v" ELSE code[1]

\* exec(exec_code, exec_globals) in the process whose marks are proc: what the code
\* does and the marks it leaves
Exec(code, proc) ==
    IF Outcome(code) = "k"
    THEN [outcome |-> IF "k" \in proc THEN "r" ELSE "v", process |-> proc \cup {"k"}]
    ELSE [outcome |-> Outcome(code), process |-> proc]

\* the try/except of validate_code: a catch-all that returns TRUE
ClassifyMut(outcome) ==
    [msg |-> "Code syntax looks valid.", success |-> TRUE, raised |-> FALSE]

\* the try/except of validate_code: the returned pair, or raised when the exception
\* is none of those caught
Classify(outcome) ==
    CASE outcome = "v" ->
            [msg |-> "Code syntax looks valid.", success |-> TRUE, raised |-> FALSE]
      [] outcome = "s" ->
            [msg |-> "Code has syntax errors", success |-> FALSE, raised |-> FALSE]
      [] outcome = "m" ->
            [msg |-> "Code syntax looks valid (with display-related import warnings).",
             success |-> TRUE, raised |-> FALSE]
      [] outcome \in {"i", "q"} ->
            [msg |-> "Import error", success |-> FALSE, raised |-> FALSE]
      [] outcome \in {"d", "n"} ->
            [msg |-> "Code syntax looks valid (with display-related warnings).",
             success |-> TRUE, raised |-> FALSE]
      [] outcome = "x" -> [msg |-> "", success |-> FALSE, raised |-> TRUE]
      [] OTHER ->
            [msg |-> "Code has runtime errors", success |-> FALSE, raised |-> FALSE]

\* validate_code in the current process
validate_code(code) ==
    Classify(Exec(code, process).outcome)

\* validate_file: the message of validate_code on the file's text, the flag dropped
\* (the lines of a file are one character long, so its text starts with its first line)
validate_file(content) ==
    validate_code(content.lines).msg

\* Python truthiness of a str
Truthy(str) == str # ""

----------------------------------------------------------------------------
(* The decision engine (MainDecisionAgent) *)

\* the tool names the LLM answers: the labels the prompt names as tools
\* (flow.py:177-257), and the docstring tool named without its suffix
ToolLabels ==
    {"read_file", "edit_file", "create_new_file", "grep_search", "list_dir",
     "search_api_docstrings_regex", "finish", "delete_file", "search_api_docstrings"}

\* the code texts the LLM writes in the model
Codes == {<<>>, <<"v">>, <<"r", "v">>, <<"x">>}

\* a YAML document: "empty" (blank), "malformed" (yaml.YAMLError), "scalar" (parses to
\* a value that is no mapping), or "mapping" with its keys
MappingDoc(m) == [kind |-> "mapping", map |-> m]

OtherDoc(k) == [kind |-> k, map |-> EmptyDict]

\* a response text is a sequence of pieces: a fence ``` with the tag that follows it
\* ("" for none), a YAML document, or a code text
Fence(tag) == [kind |-> "fence", tag |-> tag, doc |-> OtherDoc("empty"), code |-> <<>>]

DocTok(d) == [kind |-> "doc", tag |-> "", doc |-> d, code |-> <<>>]

CodeTok(c) == [kind |-> "code", tag |-> "", doc |-> OtherDoc("empty"), code |-> c]

\* a piece of prose
ProseTok(p) == [kind |-> "prose", tag |-> p, doc |-> OtherDoc("empty"), code |-> <<>>]

\* the complete params of a tool, as the prompt's examples give them
FullParams(tool) ==
    CASE tool \in {"read_file"} -> [target_file |-> "f.py"]
      [] tool = "edit_file" ->
            [target_file |-> "f.py", instructions |-> "ins", code_edit |-> "pat"]
      [] tool = "create_new_file" -> [target_file |-> "f.py", content |-> <<"v">>]
      [] tool \in {"grep_search", "search_api_docstrings_regex"} -> [query |-> "q"]
      [] tool = "list_dir" -> [relative_workspace_path |-> "utils"]
      [] tool = "validate_code" -> [code_content |-> <<"r", "v">>]
      [] tool = "finish" -> [final_version |-> <<CodeTok(<<"v">>)>>]
      [] OTHER -> EmptyDict

\* the params the LLM gives a tool in the model: all of them, or none
ParamChoices(tool) == {FullParams(tool), EmptyDict}

\* an LLM response to the decision prompt: the contents of its ```python, ```yaml,
\* ```yml and untagged ``` blocks, each list in order of appearance, and the document
\* its whole text makes
Response(py, yaml, yml, generic, plain) ==
    [python |-> py, yaml |-> yaml, yml |-> yml, generic |-> generic, plain |-> plain]

YamlResponse(doc) == Response(<<>>, <<doc>>, <<>>, <<>>, OtherDoc("malformed"))

DecisionDocs ==
    UNION { { MappingDoc([tool |-> t, reason |-> "why", params |-> p]) :
                p \in ParamChoices(t) } : t \in ToolLabels \cup {"validate_code"} }
    \cup {
           MappingDoc([tool |-> "read_file", reason |-> "why"]),
           MappingDoc([tool |-> "finish", reason |-> "why"]),
           MappingDoc([reason |-> "why", params |-> EmptyDict]),
           MappingDoc([tool |-> "finish"]),
           OtherDoc("empty"), OtherDoc("malformed"), OtherDoc("scalar") }

DecisionResponses ==
    { YamlResponse(d) : d \in DecisionDocs }
    \cup { Response(<<c>>, <<>>, <<>>, <<>>, OtherDoc("malformed")) : c \in Codes }
    \cup { Response(<<>>, <<>>, <<>>, <<>>,
                    MappingDoc([tool |-> "finish", reason |-> "why", params |-> EmptyDict])) }

\* sep occurs at the piece: "```" occurs in every fence, "```" + tag in the fence
\* with that tag
Occurs(sep, tok) == tok.kind = "fence" /\ (sep = "" \/ tok.tag = sep)

\* sep in text
Contains(text, sep) == \E i \in DOMAIN text : Occurs(sep, text[i])

\* text.split(sep)[0]
Split0(text, sep) ==
    IF Contains(text, sep)
    THEN LET i == CHOOSE i \in DOMAIN text :
                      /\ Occurs(sep, text[i])
                      /\ \A j \in 1 .. i - 1 : ~Occurs(sep, text[j])
         IN  SubSeq(text, 1, i - 1)
    ELSE text

\* text.split(sep)[1], for a text that contains sep
Split1Mut(text, sep) == SubSeq(text, Len(Split0(text, sep)) + 2, Len(text))

Split1(text, sep) ==
    Split0(SubSeq(text, Len(Split0(text, sep)) + 2, Len(text)), sep)

\* two YAML mappings written one after the other load as one mapping, a repeated key
\* taking its last value
RECURSIVE MergeDocs(_)
MergeDocs(content) ==
    IF Len(content) = 1 THEN content[1].doc.map
    ELSE LET m == MergeDocs(SubSeq(content, 1, Len(content) - 1))
             d == content[Len(content)].doc.map
         IN  [k \in DOMAIN m \cup DOMAIN d |-> IF k \in DOMAIN d THEN d[k] ELSE m[k]]

\* yaml.safe_load of the stripped content
DocOf(content) ==
    IF content = <<>> THEN OtherDoc("empty")
    ELSE IF \A i \in DOMAIN content :
               content[i].kind = "doc" /\ content[i].doc.kind = "mapping"
    THEN MappingDoc(MergeDocs(content))
    ELSE IF Len(content) = 1 /\ content[1].kind = "doc" THEN content[1].doc
    ELSE OtherDoc("malformed")

\* the content as code: a code text, or text that does not compile
CodeOf(content) ==
    IF content = <<>> THEN <<>>
    ELSE IF Len(content) = 1 /\ content[1].kind = "code" THEN content[1].code
    ELSE <<"s">>

\* the blocks MainDecisionAgent.exec takes from the response text (flow.py:270-299)
ParseResponse(text) ==
    LET Block(tag) == Split0(Split1(text, tag), "")
    IN  Response(IF Contains(text, "python") THEN <<CodeOf(Block("python"))>> ELSE <<>>,
                 IF Contains(text, "yaml") THEN <<DocOf(Block("yaml"))>> ELSE <<>>,
                 IF Contains(text, "yml") THEN <<DocOf(Block("yml"))>> ELSE <<>>,
                 IF Contains(text, "") THEN <<DocOf(Split1(text, ""))>> ELSE <<>>,
                 DocOf(text))

\* the text of a response: its python block, else its yaml block, else its plain text
Render(resp) ==
    IF Len(resp.python) > 0
    THEN <<Fence("python"), CodeTok(resp.python[1]), Fence("")>>
    ELSE IF Len(resp.yaml) > 0
    THEN <<Fence("yaml"), DocTok(resp.yaml[1]), Fence("")>>
    ELSE <<DocTok(resp.plain)>>

DecisionTexts == { Render(resp) : resp \in DecisionResponses }

\* MainDecisionAgent.exec: [raised, decision]
DecisionExec(resp) ==
    IF Len(resp.python) > 0
    THEN [raised |-> FALSE,
          decision |-> [tool |-> "validate_code", reason |-> "validate_code",
                        params |-> [code_content |-> resp.python[1]]]]
    ELSE LET doc == IF Len(resp.yaml) > 0 THEN resp.yaml[1]
                    ELSE IF Len(resp.yml) > 0 THEN resp.yml[1]
                    ELSE IF Len(resp.generic) > 0 THEN resp.generic[1]
                    ELSE resp.plain
             d == doc.map
         IN  IF \/ doc.kind # "mapping"
                \/ "tool" \notin DOMAIN d
                \/ "reason" \notin DOMAIN d
                \/ (d.tool # "finish" /\ "params" \notin DOMAIN d)
             THEN [raised |-> TRUE, decision |-> EmptyDict]
             ELSE [raised |-> FALSE,
                   decision |-> IF d.tool = "finish" THEN Put(d, "params", EmptyDict) ELSE d]

\* MainDecisionAgent.post: the entry appended to history
NewEntryMut(decision) ==
    [tool |-> decision.tool, reason |-> decision.reason,
     params |-> Get(decision, "params", EmptyDict), result |-> EmptyDict]

NewEntry(decision) ==
    [tool |-> decision.tool, reason |-> decision.reason,
     params |-> Get(decision, "params", EmptyDict), result |-> NoneVal]

\* how many times Node._exec tries exec before the exception leaves the node: the
\* nodes are constructed without max_retries
NodeMaxRetriesMut(n) == 2

NodeMaxRetries(n) == 1

\* an answer of the LLM to the decision prompt, and what exec makes of it
Answer(text) == [text |-> text, r |-> DecisionExec(ParseResponse(text))]

\* one decision round: prep, exec (one LLM call per try, answered by one of answers),
\* post appending to h; a try that raises is followed by another while tries are left
MainDecisionAgentRound(answers, h) ==
    /\ node = "main_agent"
    /\ \E n \in 1 .. NodeMaxRetries("main_agent") : \E calls \in [1 .. n -> answers] :
         LET r == calls[n].r
         IN  /\ \A i \in 1 .. n - 1 : calls[i].r.raised
             /\ n < NodeMaxRetries("main_agent") => ~r.raised
             /\ decision_calls' = [i \in 1 .. n |-> calls[i].text]
             /\ IF r.raised
                THEN /\ Raise("main_agent")
                     /\ UNCHANGED history
                ELSE /\ history' = Append(h, NewEntry(r.decision))
                     /\ Goto("main_agent", r.decision.tool)
    /\ UNCHANGED <<response, scratch, file, runs, run_base, plan_calls, llm_cache, process, workdir, qa_flow, API_DOC_STRINGS, util_calls, apply>>

\* the step on shared["history"], for a history that has room for one more entry
MainDecisionAgentOn(texts) ==
    /\ Len(history) < MaxHistory
    /\ MainDecisionAgentRound({ Answer(t) : t \in texts }, history)

MainDecisionAgent == MainDecisionAgentOn(DecisionTexts)

----------------------------------------------------------------------------
(* Files *)

Text(lines, nl) == [lines |-> lines, nl |-> nl]

EmptyText == Text(<<>>, FALSE)

\* len(content.split("\n"))
TotalLines(content) ==
    IF content = EmptyText THEN 1
    ELSE Len(content.lines) + (IF content.nl THEN 1 ELSE 0)

\* utils.read_file.read_file, (content, success): the text on disk, or a failure
ReadOutcomes(content) ==
    { [content |-> content, success |-> TRUE], [content |-> EmptyText, success |-> FALSE] }

\* the open entry: history[-1]
LastParams == Last(history).params

----------------------------------------------------------------------------
(* Searching the working directory (utils/search_ops.py) *)

\* a regular expression is modelled by the word it looks for, a text by the sequence
\* of its words; "(" is the pattern re.compile rejects
RegexValid(query) == query # "("

\* str.lower of the words of the model
Lower(w) ==
    CASE w = "Junction" -> "junction"
      [] w = "Def" -> "def"
      [] OTHER -> w

\* pattern.search(text) for the pattern compiled from the query, with re.IGNORECASE
\* unless case_sensitive
Search(query, case_sensitive, text) ==
    \E i \in DOMAIN text :
        IF case_sensitive THEN text[i] = query ELSE Lower(text[i]) = Lower(query)

\* a file os.walk yields: its path, its lines (one word each), whether its name is
\* left out by the include, exclude or .gitignore patterns, whether it can be opened
File(path, lines, skipped, readable) ==
    [path |-> path, lines |-> lines, skipped |-> skipped, readable |-> readable]

\* a working directory: gitignore is "none" (no .gitignore), "ok" (read) or
\* "unreadable" (open or decoding fails); tree is the sequence of directories
\* os.walk yields, each the sequence of its files; api names its API source tree
WorkDir(gitignore, tree, api) == [gitignore |-> gitignore, tree |-> tree, api |-> api]

RECURSIVE ScanLinesMut(_, _, _, _, _)
\* the loop over the lines without its length test
ScanLinesMut(query, case_sensitive, f, i, results) ==
    IF i > Len(f.lines) THEN results
    ELSE ScanLinesMut(query, case_sensitive, f, i + 1,
                      IF Search(query, case_sensitive, <<f.lines[i]>>)
                      THEN Append(results, [file |-> f.path, line_number |-> i,
                                            content |-> f.lines[i]])
                      ELSE results)

RECURSIVE ScanLines(_, _, _, _, _)
\* the loop over the lines of one file, from line i on
ScanLines(query, case_sensitive, f, i, results) ==
    IF i > Len(f.lines) THEN results
    ELSE IF Search(query, case_sensitive, <<f.lines[i]>>)
    THEN LET r == Append(results, [file |-> f.path, line_number |-> i,
                                   content |-> f.lines[i]])
         IN  IF Len(r) >= GrepLimit THEN r
             ELSE ScanLines(query, case_sensitive, f, i + 1, r)
    ELSE ScanLines(query, case_sensitive, f, i + 1, results)

RECURSIVE ScanFiles(_, _, _, _, _)
\* the loop over the files of one directory, from file k on; a file that cannot be
\* opened is passed over by the except clause
ScanFiles(query, case_sensitive, files, k, results) ==
    IF k > Len(files) THEN results
    ELSE IF files[k].skipped \/ ~files[k].readable
    THEN ScanFiles(query, case_sensitive, files, k + 1, results)
    ELSE LET r == ScanLines(query, case_sensitive, files[k], 1, results)
         IN  IF Len(r) >= GrepLimit THEN r
             ELSE ScanFiles(query, case_sensitive, files, k + 1, r)

RECURSIVE ScanDirs(_, _, _, _, _)
\* the loop over the directories of os.walk, from directory d on
ScanDirs(query, case_sensitive, tree, d, results) ==
    IF d > Len(tree) THEN results
    ELSE LET r == ScanFiles(query, case_sensitive, tree[d], 1, results)
         IN  IF Len(r) >= GrepLimit THEN r
             ELSE ScanDirs(query, case_sensitive, tree, d + 1, r)

\* grep_search without the except clause around re.compile
grep_searchMut(query, case_sensitive, w) ==
    IF w.gitignore = "unreadable" \/ ~RegexValid(query)
    THEN [raised |-> TRUE, matches |-> <<>>, success |-> FALSE]
    ELSE [raised |-> FALSE,
          matches |-> ScanDirs(query, case_sensitive, w.tree, 1, <<>>),
          success |-> TRUE]

\* grep_search, (matches, success); fetch_gitignore is called before the try block,
\* so its exception leaves grep_search
grep_search(query, case_sensitive, w) ==
    IF w.gitignore = "unreadable"
    THEN [raised |-> TRUE, matches |-> <<>>, success |-> FALSE]
    ELSE IF ~RegexValid(query)
    THEN [raised |-> FALSE, matches |-> <<>>, success |-> FALSE]
    ELSE [raised |-> FALSE,
          matches |-> ScanDirs(query, case_sensitive, w.tree, 1, <<>>),
          success |-> TRUE]

----------------------------------------------------------------------------
(* The API doc index (index/api_builder.py, utils/search_ops.py) *)

\* the words of a name: f"{name}.{method_name}" holds both
Words(name) ==
    IF name = "Junction.run" THEN <<"Junction", "run">> ELSE <<name>>

\* the info dict of a function or method: args is the sequence of its annotated
\* arguments, docstring the words of its docstring (<<>> for None)
FunctionInfo(args, returns, docstring) ==
    [args |-> args, returns |-> returns, docstring |-> docstring]

\* the info dict of a class: methods is the sequence of its methods
ClassInfo(methods, attributes, docstring) ==
    [methods |-> methods, attributes |-> attributes, docstring |-> docstring]

RunInfo == FunctionInfo(<<>>, "", <<"run", "junction">>)

\* build_api_docs(folder): the table of the API source tree, in the order of the dict
\* (type_defs | new_type_info); a file that does not parse makes ast.parse raise
build_api_docs(api) ==
    CASE api = "cmtj" ->
            [raised |-> FALSE,
             table |-> << [name |-> "Junction",
                           info |-> ClassInfo(<<[name |-> "run", info |-> RunInfo]>>,
                                              <<[name |-> "size", type |-> "float"]>>,
                                              <<"magnetic", "layer">>)],
                          [name |-> "pulse",
                           info |-> FunctionInfo(<<[arg |-> "t", typ |-> "float"]>>,
                                                 "float", <<>>)],
                          [name |-> "Junction.run", info |-> RunInfo] >>]
      [] api = "layers" ->
            [raised |-> FALSE,
             table |-> << [name |-> "Layer",
                           info |-> ClassInfo(<<>>, <<>>, <<"magnetic", "layer">>)] >>]
      [] api = "broken" -> [raised |-> TRUE, table |-> <<>>]
      [] OTHER -> [raised |-> FALSE, table |-> <<>>]

\* API_DOC_STRINGS is None
NotBuilt == [built |-> FALSE, table |-> <<>>]

Built(table) == [built |-> TRUE, table |-> table]

\* "if API_DOC_STRINGS is None: API_DOC_STRINGS = build_api_docs(working_dir)", with a
\* table that is rebuilt at every call
EnsureBuiltMut(index, api) ==
    [raised |-> build_api_docs(api).raised, index |-> Built(build_api_docs(api).table)]

\* "if API_DOC_STRINGS is None: API_DOC_STRINGS = build_api_docs(working_dir)"
EnsureBuilt(index, api) ==
    IF index.built THEN [raised |-> FALSE, index |-> index]
    ELSE IF build_api_docs(api).raised THEN [raised |-> TRUE, index |-> index]
    ELSE [raised |-> FALSE, index |-> Built(build_api_docs(api).table)]

\* <<x>> if cond, else nothing
Opt(cond, x) == IF cond THEN <<x>> ELSE <<>>

RECURSIVE JoinAll(_)
JoinAll(seqs) ==
    IF seqs = <<>> THEN <<>> ELSE Head(seqs) \o JoinAll(Tail(seqs))

\* f"{name}({args_str})" and " -> {returns}": the words of a signature
Signature(name, info) ==
    Words(name)
    \o JoinAll([i \in DOMAIN info.args |-> <<info.args[i].arg, info.args[i].typ>>])
    \o Opt(info.returns # "", info.returns)

\* the match records of one table entry, in the order the code appends them
EntryMatches(name, info, query, cs) ==
    Opt(Search(query, cs, Words(name)), [location |-> "name", text |-> Words(name)])
    \o (IF "args" \in DOMAIN info /\ "returns" \in DOMAIN info
        THEN Opt(Search(query, cs, Signature(name, info)),
                 [location |-> "signature", text |-> Signature(name, info)])
        ELSE <<>>)
    \o Opt(Search(query, cs, info.docstring),
           [location |-> "docstring", text |-> info.docstring])
    \o (IF "methods" \in DOMAIN info
        THEN JoinAll([i \in DOMAIN info.methods |->
                LET m == info.methods[i]
                    full == Words(name) \o <<m.name>>
                    sig == full
                           \o JoinAll([j \in DOMAIN m.info.args |->
                                         <<m.info.args[j].arg, m.info.args[j].typ>>])
                           \o Opt(m.info.returns # "", m.info.returns)
                IN  Opt(Search(query, cs, full),
                        [location |-> "method_name", text |-> full])
                    \o Opt(Search(query, cs, m.info.docstring),
                           [location |-> "method_docstring", text |-> m.info.docstring,
                            method |-> m.name])
                    \o Opt(Search(query, cs, sig),
                           [location |-> "method_signature", text |-> sig,
                            method |-> m.name])])
        ELSE <<>>)
    \o (IF "attributes" \in DOMAIN info
        THEN JoinAll([i \in DOMAIN info.attributes |->
                LET a == info.attributes[i]
                    full == Words(name) \o <<a.name>>
                IN  Opt(Search(query, cs, full),
                        [location |-> "attribute_name", text |-> full])
                    \o Opt(Search(query, cs, <<a.type>>),
                           [location |-> "attribute_type", text |-> full \o <<a.type>>,
                            attribute |-> a.name])])
        ELSE <<>>)

RECURSIVE RegexLoop(_, _, _, _, _, _)
\* the loop over API_DOC_STRINGS.items(), from entry k on
RegexLoop(table, k, query, cs, max_results, results) ==
    IF k > Len(table) \/ Len(results) >= max_results THEN results
    ELSE LET matches == EntryMatches(table[k].name, table[k].info, query, cs)
         IN  RegexLoop(table, k + 1, query, cs, max_results,
                       IF matches # <<>>
                       THEN Append(results, [name |-> table[k].name, info |-> table[k].info,
                                             matches |-> matches])
                       ELSE results)

\* search_api_docstrings_regex(query, working_dir, case_sensitive, max_results) with
\* the global as it is: whether it raised, the global afterwards, the list returned
search_api_docstrings_regex(query, api, cs, max_results, index) ==
    LET b == EnsureBuilt(index, api)
    IN  [raised |-> b.raised, index |-> b.index, is_list |-> TRUE,
         value |-> IF b.raised \/ ~RegexValid(query) THEN <<>>
                   ELSE RegexLoop(b.index.table, 1, query, cs, max_results, <<>>)]

\* get_api_docstrings(query, working_dir, free_text): value is the list of the regex
\* search if free_text, else <<info>> for the info dict of the entry named query and
\* <<>> for None
get_api_docstrings(query, api, free_text, index) ==
    LET b == EnsureBuilt(index, api)
        found == {k \in DOMAIN b.index.table : b.index.table[k].name = query}
    IN  IF b.raised THEN [raised |-> TRUE, index |-> b.index, is_list |-> FALSE, value |-> <<>>]
        ELSE IF free_text
        THEN search_api_docstrings_regex(query, api, FALSE, MaxResults, b.index)
        ELSE [raised |-> FALSE, index |-> b.index, is_list |-> FALSE,
              value |-> IF found = {} THEN <<>>
                        ELSE <<b.index.table[CHOOSE k \in found : TRUE].info>>]

\* SearchDocstring.exec: the exact lookup, and the regex search if it found nothing
SearchDocstringExec(query, api, index) ==
    LET naive_search == get_api_docstrings(query, api, FALSE, index)
    IN  IF naive_search.raised \/ naive_search.value # <<>>
        THEN naive_search
        ELSE search_api_docstrings_regex(query, api, FALSE, MaxResults, naive_search.index)

----------------------------------------------------------------------------
(* The history summary of the prompts (format_history_summary) *)

\* one rendered line: what it is about and what it shows
Line(key, val) == [key |-> key, val |-> val]

\* the lines of one match of a docstring search: its name and score, and every field
\* among match_reasons, docstring, args, returns, methods that the match holds
ApiMatchLines(match) ==
    <<Line("API match", [name |-> Get(match, "name", ""),
                         score |-> Get(match, "match_score", 0)])>>
    \o Opt(Get(match, "match_reasons", <<>>) # <<>>,
           Line("Reasons", Get(match, "match_reasons", <<>>)))
    \o Opt(Get(match, "docstring", <<>>) # <<>>,
           Line("Docstring", Get(match, "docstring", <<>>)))
    \o Opt(Get(match, "args", <<>>) # <<>>, Line("Args", Get(match, "args", <<>>)))
    \o Opt(Get(match, "returns", "") # "", Line("Returns", Get(match, "returns", "")))
    \o Opt(Get(match, "methods", <<>>) # <<>>, Line("Methods", Get(match, "methods", <<>>)))

\* the lines of one history entry whose result, if set, holds a boolean success
EntryLines(action) ==
    LET result == action.result
        success == Get(result, "success", FALSE)
        tool == action.tool
    IN  <<Line("Tool", tool), Line("Reason", action.reason)>>
        \o Opt(action.params # EmptyDict, Line("Parameters", action.params))
        \o (IF result = NoneVal \/ result = EmptyDict THEN <<>>
            ELSE <<Line("Result", IF success THEN "Success" ELSE "Failed")>>
                 \o (CASE tool = "read_file" /\ success ->
                             <<Line("Content", Get(result, "content", EmptyText))>>
                        [] tool = "grep_search" /\ success ->
                             <<Line("Matches", Len(Get(result, "matches", <<>>)))>>
                             \o [j \in DOMAIN Get(result, "matches", <<>>) |->
                                   Line("Match", [file |-> Get(result.matches[j], "file", ""),
                                                  line |-> Get(result.matches[j], "line", NoneVal),
                                                  content |-> Get(result.matches[j], "content", "")])]
                        [] tool = "edit_file" /\ success ->
                             <<Line("Operations", Get(result, "operations", 0))>>
                             \o Opt(Get(result, "reasoning", "") # "",
                                    Line("Reasoning", Get(result, "reasoning", "")))
                        [] tool = "list_dir" /\ success ->
                             <<Line("Directory structure",
                                    IF Get(result, "tree_visualization", "") # ""
                                    THEN Get(result, "tree_visualization", "")
                                    ELSE "(Empty or inaccessible directory)")>>
                        [] tool = "search_api_docstrings_regex" /\ success ->
                             <<Line("API Matches", Len(Get(result, "matches", <<>>)))>>
                             \o JoinAll([j \in DOMAIN Get(result, "matches", <<>>) |->
                                           ApiMatchLines(result.matches[j])])
                        [] tool = "search_api_docstrings_regex" /\ ~success ->
                             <<Line("API Search Result",
                                    Get(result, "message", "No matches found"))>>
                        [] OTHER -> <<>>))

\* format_history_summary(history): the lines of every entry, in order
format_history_summary(h) ==
    [i \in DOMAIN h |-> EntryLines(h[i])]

----------------------------------------------------------------------------
(* Action executors *)

\* ReadFileAction: prep, exec, post
ReadFileAction ==
    /\ node = "read_action"
    /\ IF Get(LastParams, "target_file", "") = ""
       THEN /\ Raise("read_action")
            /\ UNCHANGED history
       ELSE \E r \in ReadOutcomes(file) :
              /\ history' = SetLastResult(history, [success |-> r.success, content |-> r.content])
              /\ Goto("read_action", "")
    /\ UNCHANGED <<response, scratch, file, runs, run_base, plan_calls, llm_cache, decision_calls, process, workdir, qa_flow, API_DOC_STRINGS, util_calls, apply>>

\* what grep_search does in the main flow, whatever the working directory holds
GrepOutcomes ==
    { [raised |-> TRUE, matches |-> <<>>, success |-> FALSE],
      [raised |-> FALSE, matches |-> <<>>, success |-> FALSE],
      [raised |-> FALSE, matches |-> <<>>, success |-> TRUE],
      [raised |-> FALSE,
       matches |-> <<[file |-> "f.py", line_number |-> 1, content |-> "q"]>>,
       success |-> TRUE] }

\* GrepSearchAction: prep, exec (grep_search returns one of outcomes), post
GrepSearchActionOn(outcomes) ==
    /\ node = "grep_action"
    /\ IF "query" \notin DOMAIN LastParams
       THEN /\ Raise("grep_action")
            /\ UNCHANGED history
       ELSE \E r \in outcomes :
              IF r.raised
              THEN /\ Raise("grep_action")
                   /\ UNCHANGED history
              ELSE /\ history' = SetLastResult(history,
                                     [success |-> r.success, matches |-> r.matches])
                   /\ Goto("grep_action", "")
    /\ UNCHANGED <<response, scratch, file, runs, run_base, plan_calls, llm_cache, decision_calls, process, workdir, qa_flow, API_DOC_STRINGS, util_calls, apply>>

GrepSearchAction == GrepSearchActionOn(GrepOutcomes)

\* GrepSearchAction on the working directory as it is
GrepSearchActionIn ==
    GrepSearchActionOn({ grep_search(Get(LastParams, "query", ""),
                                     Get(LastParams, "case_sensitive", FALSE), workdir) })

\* utils.dir_ops.list_dir, (success, tree_str)
ListDirOutcomes ==
    { [success |-> TRUE, tree_str |-> "tree"], [success |-> FALSE, tree_str |-> ""] }

\* ListDirAction.prep: the path listed, relative to the working directory
ListDirPath(params) == Get(params, "relative_workspace_path", ".")

\* ListDirAction: prep (the path defaults to "."), exec, post
ListDirAction ==
    /\ node = "list_dir_action"
    /\ \E r \in ListDirOutcomes :
         /\ history' = SetLastResult(history,
                          [success |-> r.success, tree_visualization |-> r.tree_str])
         /\ Goto("list_dir_action", "")
    /\ UNCHANGED <<response, scratch, file, runs, run_base, plan_calls, llm_cache, decision_calls, process, workdir, qa_flow, API_DOC_STRINGS, util_calls, apply>>

\* what SearchDocstring.exec returns in the main flow, whatever the query finds: the
\* entry of the exact-name lookup (a dict) when it finds one, else the list the regex
\* search returns; the index is built by the first call
DocstringOutcomes ==
    LET index == EnsureBuilt(API_DOC_STRINGS, workdir.api).index
        entry == [name |-> "Junction", info |-> RunInfo,
                  matches |-> <<[location |-> "name", text |-> <<"Junction">>]>>]
    IN  { [raised |-> FALSE, index |-> index, is_list |-> FALSE, value |-> <<RunInfo>>],
          [raised |-> FALSE, index |-> index, is_list |-> TRUE, value |-> <<>>],
          [raised |-> FALSE, index |-> index, is_list |-> TRUE, value |-> <<entry>>] }

\* SearchDocstring.post: the result recorded
DocstringResult(r) ==
    [success |-> r.is_list /\ Len(r.value) > 0,
     matches |-> IF r.is_list THEN r.value ELSE <<>>,
     message |-> ""]

\* SearchDocstring: prep, exec (returns one of outcomes), post
SearchDocstringOn(outcomes) ==
    /\ node = "docstring_node"
    /\ IF Get(LastParams, "query", "") = ""
       THEN /\ Raise("docstring_node")
            /\ UNCHANGED <<history, API_DOC_STRINGS>>
       ELSE \E r \in outcomes :
              /\ API_DOC_STRINGS' = r.index
              /\ IF r.raised
                 THEN /\ Raise("docstring_node")
                      /\ UNCHANGED history
                 ELSE /\ history' = SetLastResult(history, DocstringResult(r))
                      /\ Goto("docstring_node", "")
    /\ UNCHANGED <<response, scratch, file, runs, run_base, plan_calls, llm_cache, decision_calls, process, workdir, qa_flow, util_calls, apply>>

SearchDocstring == SearchDocstringOn(DocstringOutcomes)

\* SearchDocstring on the API source tree of the working directory
SearchDocstringIn ==
    SearchDocstringOn({ SearchDocstringExec(Get(LastParams, "query", ""), workdir.api,
                                            API_DOC_STRINGS) })

\* utils.insert_file.insert_file, (success, message), and the text then on disk
InsertOutcomes(old, content) ==
    { [success |-> TRUE, message |-> "written", file |-> Text(content, FALSE)],
      [success |-> FALSE, message |-> "cannot write", file |-> old] }

\* CreateNewFileNode: prep, exec, post; post unpacks exec_res as (error, success)
CreateNewFileNode ==
    /\ node = "create_new_file"
    /\ IF Get(LastParams, "target_file", "") = "" \/ Get(LastParams, "content", <<>>) = <<>>
       THEN /\ Raise("create_new_file")
            /\ UNCHANGED <<history, file>>
       ELSE \E r \in InsertOutcomes(file, LastParams.content) :
              LET error == BoolVal(r.success)
                  success == StrVal(r.message)
              IN  /\ file' = r.file
                  /\ IF Truthy(r.message) /\ validate_code(r.file.lines).raised
                     THEN \* validate_file lets the exit request of the file's code through
                          /\ Raise("create_new_file")
                          /\ UNCHANGED history
                     ELSE /\ history' = SetLastResult(history,
                                           IF Truthy(r.message)
                                           THEN [success |-> success,
                                                 error |-> StrVal(validate_file(r.file))]
                                           ELSE [success |-> success, error |-> error])
                          /\ Goto("create_new_file", "")
    /\ UNCHANGED <<response, scratch, runs, run_base, plan_calls, llm_cache, decision_calls, process, workdir, qa_flow, API_DOC_STRINGS, util_calls, apply>>

\* the prose the LLM writes as the final summary
Prose == "summary"

\* FormatResponseNode.post: the text stored as the response
FormatPost(prose, final_version) ==
    IF final_version # <<>>
    THEN <<ProseTok(prose)>>
         \o (IF ~ \E i \in DOMAIN final_version : final_version[i] = Fence("python")
             THEN <<Fence("python")>> \o final_version \o <<Fence("")>>
             ELSE final_version)
    ELSE <<ProseTok(prose)>>

\* FormatResponseNode: prep, exec (one LLM call), post
FormatResponseNode ==
    /\ node = "format_response"
    /\ LET final_version == Get(LastParams, "final_version", <<>>)
       IN  response' = StrVal(FormatPost(Prose, final_version))
    /\ Goto("format_response", "done")
    /\ UNCHANGED <<history, scratch, file, runs, run_base, plan_calls, llm_cache, decision_calls, process, workdir, qa_flow, API_DOC_STRINGS, util_calls, apply>>

----------------------------------------------------------------------------
(* The validate/fix loop *)

\* CompileFileNode.exec: (label, errors)
CompileExecMut(code_content) ==
    <<"compilation_success", validate_code(code_content).msg>>

CompileExec(code_content) ==
    LET v == validate_code(code_content)
    IN  IF v.success THEN <<"compilation_success", v.msg>> ELSE <<"compilation_error", v.msg>>

\* CompileFileNode: prep, exec, post
CompileFileNode ==
    /\ node = "compile_file_node"
    /\ LET code_content == Get(LastParams, "code_content", <<>>)
       IN  IF code_content = <<>>
           THEN /\ Raise("compile_file_node")
                /\ UNCHANGED history
           ELSE IF validate_code(code_content).raised
           THEN /\ Raise("compile_file_node")
                /\ UNCHANGED history
           ELSE LET exec_res == CompileExec(code_content)
                IN  /\ history' = SetLastResult(history,
                                     [code_content |-> StrVal(code_content),
                                      success |-> exec_res[1] = "compilation_success",
                                      compilation_errors |-> exec_res[2]])
                    /\ Goto("compile_file_node", exec_res[1])
    /\ process' = Exec(Get(LastParams, "code_content", <<>>), process).process
    /\ UNCHANGED <<response, scratch, file, runs, run_base, plan_calls, llm_cache, decision_calls,
                   workdir, qa_flow, API_DOC_STRINGS, util_calls, apply>>

\* the texts the LLM returns as the fixed code in the model
FixTexts == Codes \cup {<<"v", "v">>, <<"r">>}

\* the label FixCodeNode.post returns for the LLM's text exec_res: exec_res[0], its
\* first character
FixLabel(exec_res) == exec_res[1]

\* FixCodeNode: prep, exec (one LLM call), post; post indexes the text at 0 and 1
FixCodeNode ==
    /\ node = "fix_code_node"
    /\ LET code_content == Get(LastParams, "code_content", <<>>)
           compilation_errors == Get(Last(history).result, "compilation_errors", "")
       IN  IF code_content = <<>> \/ compilation_errors = ""
           THEN /\ Raise("fix_code_node")
                /\ UNCHANGED history
           ELSE \E exec_res \in FixTexts :
                  IF Len(exec_res) < 2
                  THEN /\ Raise("fix_code_node")
                       /\ UNCHANGED history
                  ELSE /\ history' = SetLastResult(history,
                                        [code_content |->
                                            [code_content |-> code_content,
                                             compilation_errors |-> compilation_errors],
                                         success |-> exec_res[1] = "compilation_success",
                                         compilation_errors |-> exec_res[2]])
                       /\ Goto("fix_code_node", FixLabel(exec_res))
    /\ UNCHANGED <<response, scratch, file, runs, run_base, plan_calls, llm_cache, decision_calls, process, workdir, qa_flow, API_DOC_STRINGS, util_calls, apply>>

----------------------------------------------------------------------------
(* The edit sub-flow: read target, analyze and plan, apply *)

\* ReadTargetFileNode: prep, exec, post; the text read goes to the entry's side field
ReadTargetFileNode ==
    /\ node = "read_target"
    /\ IF Get(LastParams, "target_file", "") = ""
       THEN /\ Raise("read_target")
            /\ UNCHANGED history
       ELSE \E r \in ReadOutcomes(file) :
              /\ history' = [history EXCEPT ![Len(history)] = Put(@, "file_content", r.content)]
              /\ Goto("read_target", "")
    /\ UNCHANGED <<response, scratch, file, runs, run_base, plan_calls, llm_cache, decision_calls, process, workdir, qa_flow, API_DOC_STRINGS, util_calls, apply>>

Op(s, e, repl) == [start_line |-> s, end_line |-> e, replacement |-> repl]

\* the checks of AnalyzeAndPlanNode.exec on one operation (flow.py:637-644)
OpAccepted(op, total_lines) ==
    /\ {"start_line", "end_line", "replacement"} \subseteq DOMAIN op
    /\ 1 <= op.start_line /\ op.start_line <= total_lines
    /\ 1 <= op.end_line /\ op.end_line <= total_lines
    /\ op.start_line <= op.end_line

\* an LLM response to the plan prompt: the tag of its first fenced block ("none"
\* without one) and the document in it; operations is [is_list, items]
PlanResponse(fence, doc) == [fence |-> fence, doc |-> doc]

OpsList(items) == [is_list |-> TRUE, items |-> items]

PlanDoc(items) == MappingDoc([reasoning |-> "because", operations |-> OpsList(items)])

\* one attempt that asks again after every response it does not accept
PlanAttemptMut(resp, total_lines) ==
    IF /\ resp.fence # "none" /\ resp.doc.kind = "mapping"
       /\ DOMAIN resp.doc.map = {"reasoning", "operations"}
       /\ resp.doc.map.operations.is_list
       /\ \A i \in DOMAIN resp.doc.map.operations.items :
              OpAccepted(resp.doc.map.operations.items[i], total_lines)
    THEN "ok"
    ELSE "retry"

\* one attempt of AnalyzeAndPlanNode.exec on the response: "retry" when no YAML text
\* was extracted, "raise" when parsing or a check fails, "ok"
PlanAttempt(resp, total_lines) ==
    IF resp.fence = "none" \/ resp.doc.kind = "empty" THEN "retry"
    ELSE IF resp.doc.kind # "mapping" THEN "raise"
    ELSE LET decision == resp.doc.map
         IN  IF \/ "reasoning" \notin DOMAIN decision
                \/ "operations" \notin DOMAIN decision
             THEN "raise"
             ELSE IF ~decision.operations.is_list THEN "raise"
             ELSE IF \A i \in DOMAIN decision.operations.items :
                        OpAccepted(decision.operations.items[i], total_lines)
                  THEN "ok"
                  ELSE "raise"

\* the model call_llm uses when the caller names none
DefaultModel == <<"o4-mini">>

\* f"{model}:{prompt}", texts as sequences of their pieces
cache_key(model, prompt) == model \o <<":">> \o prompt

\* call_llm that never looks at the cache file nor writes it
call_llmMut(cache, prompt, use_cache, model, answer) ==
    [response |-> answer, cache |-> cache, hit |-> FALSE, stored |-> FALSE]

\* utils.call_llm.call_llm(prompt, use_cache, model) on the cache file's content, answer
\* being what the LLM backend returns if it is asked: the response, the cache
\* afterwards, whether the cache answered and whether the cache was written
call_llm(cache, prompt, use_cache, model, answer) ==
    IF use_cache /\ cache_key(model, prompt) \in DOMAIN cache
    THEN [response |-> cache[cache_key(model, prompt)], cache |-> cache,
          hit |-> TRUE, stored |-> FALSE]
    ELSE [response |-> answer,
          cache |-> IF use_cache THEN Put(cache, cache_key(model, prompt), answer) ELSE cache,
          hit |-> FALSE, stored |-> use_cache]

RECURSIVE JoinLines(_)
JoinLines(lines) ==
    IF lines = <<>> THEN <<>>
    ELSE IF Len(lines) = 1 THEN lines
    ELSE <<Head(lines), "\n">> \o JoinLines(Tail(lines))

\* the plan prompt: fixed text around the file content, the instructions and the
\* code edit pattern
PlanPrompt(file_content, instructions, code_edit) ==
    <<"FILE CONTENT:">> \o JoinLines(file_content.lines)
    \o (IF file_content.nl THEN <<"\n">> ELSE <<>>)
    \o <<"EDIT INSTRUCTIONS:", instructions, "CODE EDIT PATTERN:", code_edit>>

\* the use_cache argument of the plan step's call_llm call
UseCacheMut(retries) == TRUE

UseCache(retries) == retries = DEFAULT_RETRIES

\* AnalyzeAndPlanNode.exec(params, retries), resps being the backend's answers to the
\* successive calls: [raised, decision, calls, cache], calls the record of each
\* call_llm call, cache the cache file afterwards
RECURSIVE PlanExec(_, _, _, _, _)
PlanExec(resps, total_lines, retries, cache, prompt) ==
    LET c == call_llm(cache, prompt, UseCache(retries), DefaultModel, Head(resps))
        a == PlanAttempt(c.response, total_lines)
        call == [use_cache |-> UseCache(retries), response |-> c.response,
                 hit |-> c.hit, stored |-> c.stored]
        raised == [raised |-> TRUE, decision |-> EmptyDict, calls |-> <<call>>,
                   cache |-> c.cache]
    IN  IF a = "ok"
        THEN [raised |-> FALSE, decision |-> c.response.doc.map, calls |-> <<call>>,
              cache |-> c.cache]
        ELSE IF a = "raise"
        THEN raised
        ELSE IF retries > 0
        THEN LET r == PlanExec(Tail(resps), total_lines, retries - 1, c.cache, prompt)
             IN  [r EXCEPT !.calls = <<call>> \o r.calls]
        ELSE raised

\* AnalyzeAndPlanNode: prep, exec, post. The LLM backend answers the first call_llm
\* call with a response of PR and every further call with one of PRR; k is the number
\* of further calls the step makes (the answers to calls it does not make are
\* unasked, and so is the answer to a first call that the cache answers)
AnalyzeAndPlan(PR, PRR) ==
    /\ node = "analyze_plan"
    /\ LET file_content == Get(Last(history), "file_content", EmptyText)
           total_lines == TotalLines(file_content)
       IN  IF \/ file_content = EmptyText
              \/ Get(LastParams, "instructions", "") = ""
              \/ Get(LastParams, "code_edit", "") = ""
           THEN /\ Raise("analyze_plan")
                /\ plan_calls' = <<>>
                /\ UNCHANGED <<scratch, llm_cache>>
           ELSE LET prompt == PlanPrompt(file_content, LastParams.instructions,
                                         LastParams.code_edit)
                    cached == call_llm(llm_cache, prompt, UseCache(DEFAULT_RETRIES),
                                       DefaultModel, EmptyDict)
                IN
                \E first \in IF cached.hit THEN {cached.response} ELSE PR :
                \E k \in IF PlanAttempt(first, total_lines) = "retry"
                         THEN 1 .. DEFAULT_RETRIES ELSE {0} :
                \E more \in [1 .. k -> PRR] :
                  LET unasked == [i \in 1 .. DEFAULT_RETRIES - k |-> first]
                      resps == <<first>> \o more \o unasked
                      r == PlanExec(resps, total_lines, DEFAULT_RETRIES, llm_cache, prompt)
                  IN  /\ Len(r.calls) = k + 1
                      /\ plan_calls' = r.calls
                      /\ llm_cache' = r.cache
                      /\ IF r.raised
                         THEN /\ Raise("analyze_plan")
                              /\ UNCHANGED scratch
                         ELSE /\ scratch' = Put(Put(scratch, "edit_reasoning",
                                                     r.decision.reasoning),
                                                 "edit_operations", r.decision.operations.items)
                              /\ Goto("analyze_plan", "")
    /\ UNCHANGED <<history, response, file, runs, run_base, decision_calls, process, workdir, qa_flow, API_DOC_STRINGS, util_calls, apply>>

\* utils.replace_file.replace_file, (success, message), and the text then on disk:
\* lines start_line..end_line are replaced by the replacement's lines, and an
\* operation at the line after the last one appends. For a range that starts in the
\* file and ends after its last line the outcome is not specified: the call fails, or
\* replaces up to the last line
replace_file(content, start_line, end_line, replacement) ==
    LET n == Len(content.lines)
        failed == [success |-> FALSE, message |-> "invalid line range", file |-> content]
        replaced(e) ==
            [success |-> TRUE, message |-> "replaced",
             file |-> Text(SubSeq(content.lines, 1, start_line - 1) \o replacement
                           \o SubSeq(content.lines, e + 1, n), content.nl)]
    IN  IF 1 <= start_line /\ start_line <= end_line /\ end_line <= n
        THEN {replaced(end_line)}
        ELSE IF start_line = n + 1 /\ end_line = n + 1
        THEN {[success |-> TRUE, message |-> "appended",
               file |-> Text(content.lines \o replacement, content.nl)]}
        ELSE IF 1 <= start_line /\ start_line <= n /\ n < end_line
        THEN {failed, replaced(n)}
        ELSE {failed}

\* sorted(..., key=start_line, reverse=True) by insertion: stable, so operations with
\* equal start_line keep their order
RECURSIVE InsertDesc(_, _)
InsertDescMut(sorted, op) ==
    IF sorted = <<>> THEN <<op>>
    ELSE IF Head(sorted).start_line <= op.start_line
    THEN <<Head(sorted)>> \o InsertDesc(Tail(sorted), op)
    ELSE <<op>> \o sorted

InsertDesc(sorted, op) ==
    IF sorted = <<>> THEN <<op>>
    ELSE IF Head(sorted).start_line >= op.start_line
    THEN <<Head(sorted)>> \o InsertDesc(Tail(sorted), op)
    ELSE <<op>> \o sorted

RECURSIVE SortDesc(_)
SortDesc(ops) ==
    IF ops = <<>> THEN <<>>
    ELSE InsertDesc(SortDesc(SubSeq(ops, 1, Len(ops) - 1)), ops[Len(ops)])

ApplyIdle ==
    [phase |-> "idle", ops |-> <<>>, i |-> 1, res |-> <<>>, orig |-> EmptyText,
     applied |-> <<>>]

\* ApplyChangesNode.prep: the operations sorted by start_line, descending
ApplyChangesPrep ==
    /\ node = "apply_changes"
    /\ apply.phase # "exec"
    /\ LET edit_operations == Get(scratch, "edit_operations", <<>>)
       IN  IF edit_operations # <<>> /\ Get(LastParams, "target_file", "") = ""
           THEN /\ Raise("apply_changes")
                /\ UNCHANGED apply
           ELSE /\ apply' = [phase |-> "exec", ops |-> SortDesc(edit_operations), i |-> 1,
                             res |-> <<>>, orig |-> file, applied |-> <<>>]
                /\ UNCHANGED <<node, prev, last_action>>
    /\ UNCHANGED <<history, response, scratch, file, runs, run_base, plan_calls, llm_cache, decision_calls, process, workdir, qa_flow, API_DOC_STRINGS, util_calls>>

\* the step with the range cut to its first line
ApplyChangesExecMut ==
    /\ node = "apply_changes"
    /\ apply.phase = "exec"
    /\ apply.i <= Len(apply.ops)
    /\ LET op == apply.ops[apply.i]
       IN  \E r \in replace_file(file, op.start_line, op.start_line, op.replacement) :
             /\ file' = r.file
             /\ apply' = [apply EXCEPT !.i = @ + 1,
                                       !.res = Append(@, [success |-> r.success,
                                                          message |-> r.message]),
                                       !.applied = Append(@, op)]
    /\ UNCHANGED <<node, prev, last_action, history, response, scratch, runs, run_base, plan_calls, llm_cache, decision_calls, process, workdir, qa_flow, API_DOC_STRINGS, util_calls>>

\* ApplyChangesNode.exec on the next operation of the batch
ApplyChangesExec ==
    /\ node = "apply_changes"
    /\ apply.phase = "exec"
    /\ apply.i <= Len(apply.ops)
    /\ LET op == apply.ops[apply.i]
       IN  \E r \in replace_file(file, op.start_line, op.end_line, op.replacement) :
             /\ file' = r.file
             /\ apply' = [apply EXCEPT !.i = @ + 1,
                                       !.res = Append(@, [success |-> r.success,
                                                          message |-> r.message]),
                                       !.applied = Append(@, op)]
    /\ UNCHANGED <<node, prev, last_action, history, response, scratch, runs, run_base, plan_calls, llm_cache, decision_calls, process, workdir, qa_flow, API_DOC_STRINGS, util_calls>>

\* the value of all_successful in ApplyChangesNode.post: every operation succeeded
\* and no validate_file call returned a truthy value
AllSuccessful(exec_res_list, errors) ==
    /\ \A i \in DOMAIN exec_res_list : exec_res_list[i].success
    /\ errors = <<>>

\* ApplyChangesNode.post: validate the file once per operation, record the result,
\* clear the scratch fields
ApplyChangesPost ==
    /\ node = "apply_changes"
    /\ apply.phase = "exec"
    /\ apply.i > Len(apply.ops)
    /\ IF apply.ops # <<>> /\ validate_code(file.lines).raised
       THEN \* validate_file lets the exit request of the file's code through: post is
            \* left before it records the result and before it pops the scratch fields
            /\ Raise("apply_changes")
            /\ UNCHANGED <<history, scratch, apply>>
       ELSE /\ LET all_errors == [i \in DOMAIN apply.ops |-> validate_file(file)]
                   errors == SelectSeq(all_errors, Truthy)
                   details == IF errors # <<>>
                              THEN Append(apply.res, [success |-> FALSE, message |-> errors])
                              ELSE apply.res
               IN  history' = SetLastResult(history,
                                 [success |-> AllSuccessful(apply.res, errors),
                                  operations |-> Len(apply.res),
                                  details |-> details,
                                  reasoning |-> Get(scratch, "edit_reasoning", "")])
            /\ scratch' = Pop(Pop(scratch, "edit_operations"), "edit_reasoning")
            /\ apply' = [apply EXCEPT !.phase = "done"]
            /\ Goto("apply_changes", "")
    /\ UNCHANGED <<response, file, runs, run_base, plan_calls, llm_cache, decision_calls, process, workdir, qa_flow, API_DOC_STRINGS, util_calls>>

----------------------------------------------------------------------------
(* The main flow under main.interactive *)

\* the working directory of the main flow: a .gitignore, one file, the cmtj API
DefaultDir ==
    WorkDir("ok", << <<File("f.py", <<"q">>, FALSE, TRUE)>> >>, "cmtj")

\* the file the tools target when the process starts
InitialFile == Text(<<"v", "a">>, FALSE)

\* the plan responses of the LLM in the main flow
MainPlanResponses ==
    { PlanResponse("yaml", PlanDoc(<<Op(2, 2, <<"b">>)>>)),
      PlanResponse("yaml", PlanDoc(<<Op(3, 3, <<"b">>)>>)),
      PlanResponse("yaml", PlanDoc(<<>>)),
      PlanResponse("none", OtherDoc("empty")) }

AnalyzeAndPlanNode == AnalyzeAndPlan(MainPlanResponses, MainPlanResponses)

\* interactive(): shared is built once, before the loop
Init ==
    /\ node = "idle"
    /\ prev = ""
    /\ last_action = ""
    /\ history = <<>>
    /\ response = NoneVal
    /\ scratch = EmptyDict
    /\ file = InitialFile
    /\ runs = 0
    /\ run_base = 0
    /\ plan_calls = <<>>
    /\ llm_cache = EmptyDict
    /\ decision_calls = <<>>
    /\ process = {}
    /\ workdir = DefaultDir
    /\ qa_flow = NoFlow
    /\ API_DOC_STRINGS = NotBuilt
    /\ util_calls = <<>>
    /\ apply = ApplyIdle

\* interactive(): the next query is read and coding_agent_flow.run(shared) is called
\* on the same shared dict, once the previous run has returned
StartRun ==
    /\ node \in {"idle", "stopped"}
    /\ runs < MaxRuns
    /\ runs' = runs + 1
    /\ run_base' = Len(history)
    /\ node' = "main_agent"
    /\ prev' = ""
    /\ last_action' = ""
    /\ UNCHANGED <<history, response, scratch, file, plan_calls, llm_cache, decision_calls, process, workdir, qa_flow, API_DOC_STRINGS, util_calls, apply>>

Next ==
    \/ StartRun
    \/ MainDecisionAgent
    \/ ReadFileAction
    \/ GrepSearchAction
    \/ ListDirAction
    \/ SearchDocstring
    \/ CreateNewFileNode
    \/ CompileFileNode
    \/ FixCodeNode
    \/ ReadTargetFileNode
    \/ AnalyzeAndPlanNode
    \/ ApplyChangesPrep
    \/ ApplyChangesExec
    \/ ApplyChangesPost
    \/ FormatResponseNode

Spec == Init /\ [][Next]_vars

----------------------------------------------------------------------------
(* The edit sub-flow alone, on every small file and plan *)

\* the lines of the files, all different; a text that starts with "v" runs cleanly
FileLines == <<"v", "a", "b", "c", "d">>

\* the files of MaxLines - 1 or MaxLines distinct lines, with and without a final newline
EditFiles ==
    { Text(SubSeq(FileLines, 1, n), nl) : n \in MaxLines - 1 .. MaxLines, nl \in BOOLEAN }

\* a replacement deletes the lines, or puts two lines in their place
Replacements == { <<>>, <<"X", "Y">> }

\* every operation the LLM may plan on one line or on two, in range or not
EditOps ==
    UNION { { Op(s, e, r) : e \in {s, s + 1}, r \in Replacements } : s \in 1 .. MaxLines + 1 }

EditOpLists == UNION { [1 .. n -> EditOps] : n \in 0 .. MaxOps }

\* responses without a well-formed plan
BadPlanResponses ==
    { PlanResponse("none", OtherDoc("empty")),
      PlanResponse("yaml", OtherDoc("empty")),
      PlanResponse("yml", OtherDoc("malformed")),
      PlanResponse("generic", OtherDoc("scalar")),
      PlanResponse("yaml", MappingDoc([operations |-> OpsList(<<>>)])),
      PlanResponse("yaml", MappingDoc([reasoning |-> "because"])),
      PlanResponse("yaml", MappingDoc([reasoning |-> "because",
                                       operations |-> [is_list |-> FALSE, items |-> <<>>]])),
      PlanResponse("yaml", PlanDoc(<<[start_line |-> 1, end_line |-> 1]>>)),
      PlanResponse("yaml", PlanDoc(<<Op(2, 1, <<"X">>)>>)),
      PlanResponse("yaml", PlanDoc(<<Op(0, 1, <<"X">>)>>)) }

EditPlanResponses ==
    { PlanResponse("yaml", PlanDoc(items)) : items \in EditOpLists } \cup BadPlanResponses

RetryPlanResponses ==
    { PlanResponse("yml", PlanDoc(<<Op(1, 1, <<"X">>)>>)),
      PlanResponse("generic", PlanDoc(<<Op(MaxLines + 2, MaxLines + 2, <<"X">>)>>)) }
    \cup BadPlanResponses

AnalyzeAndPlanEdit == AnalyzeAndPlan(EditPlanResponses, RetryPlanResponses)

\* the cache file when the sub-flow starts: empty, or holding the answer an earlier
\* plan step got for the same file and params, without YAML text or with a plan
EditCaches(content) ==
    LET key == cache_key(DefaultModel,
                         PlanPrompt(content, FullParams("edit_file").instructions,
                                    FullParams("edit_file").code_edit))
    IN  { EmptyDict,
          Put(EmptyDict, key, PlanResponse("none", OtherDoc("empty"))),
          Put(EmptyDict, key, PlanResponse("yaml", PlanDoc(<<Op(1, 1, <<"X", "Y">>)>>))) }

\* the decision engine has just chosen edit_file with complete params
InitEdit ==
    /\ node = "read_target"
    /\ prev = "main_agent"
    /\ last_action = "edit_file"
    /\ history = <<NewEntry([tool |-> "edit_file", reason |-> "why",
                             params |-> FullParams("edit_file")])>>
    /\ response = NoneVal
    /\ scratch = EmptyDict
    /\ file \in EditFiles
    /\ runs = 1
    /\ run_base = 0
    /\ plan_calls = <<>>
    /\ llm_cache \in EditCaches(file)
    /\ decision_calls = <<>>
    /\ process = {}
    /\ workdir = DefaultDir
    /\ qa_flow = NoFlow
    /\ API_DOC_STRINGS = NotBuilt
    /\ util_calls = <<>>
    /\ apply = ApplyIdle

NextEdit ==
    \/ ReadTargetFileNode
    \/ AnalyzeAndPlanEdit
    \/ ApplyChangesPrep
    \/ ApplyChangesExec
    \/ ApplyChangesPost

SpecEdit == InitEdit /\ [][NextEdit]_vars

----------------------------------------------------------------------------
(* The edit sub-flow on plans of one operation *)

\* the files of up to MaxLines lines, and the files whose code asks to exit when run
ApplyFiles ==
    { Text(SubSeq(FileLines, 1, n), nl) : n \in 1 .. MaxLines, nl \in BOOLEAN }
    \cup { Text(<<"x", "a">>, nl) : nl \in BOOLEAN }

\* the operation replaces lines start_line..end_line by the same lines
IsNoOp(op, content) ==
    /\ 1 <= op.start_line /\ op.start_line <= op.end_line
    /\ op.end_line <= Len(content.lines)
    /\ op.replacement = SubSeq(content.lines, op.start_line, op.end_line)

\* every operation that rewrites a range of the file with the text it already has
NoOps(content) ==
    { Op(s, e, SubSeq(content.lines, s, e)) :
        s \in 1 .. Len(content.lines), e \in 1 .. Len(content.lines) }

\* the one-operation plans of the LLM: the no-op operations on the file, an edit
\* that puts an exit request on line 1, and an ordinary edit of line 1
ApplyPlanResponses(content) ==
    { PlanResponse("yaml", PlanDoc(<<op>>)) :
        op \in NoOps(content) \cup {Op(1, 1, <<"x">>), Op(1, 1, <<"v", "X">>)} }

AnalyzeAndPlanApply == AnalyzeAndPlan(ApplyPlanResponses(file), ApplyPlanResponses(file))

InitApply ==
    /\ node = "read_target"
    /\ prev = "main_agent"
    /\ last_action = "edit_file"
    /\ history = <<NewEntry([tool |-> "edit_file", reason |-> "why",
                             params |-> FullParams("edit_file")])>>
    /\ response = NoneVal
    /\ scratch = EmptyDict
    /\ file \in ApplyFiles
    /\ runs = 1
    /\ run_base = 0
    /\ plan_calls = <<>>
    /\ llm_cache = EmptyDict
    /\ decision_calls = <<>>
    /\ process = {}
    /\ workdir = DefaultDir
    /\ qa_flow = NoFlow
    /\ API_DOC_STRINGS = NotBuilt
    /\ util_calls = <<>>
    /\ apply = ApplyIdle

NextApply ==
    \/ ReadTargetFileNode
    \/ AnalyzeAndPlanApply
    \/ ApplyChangesPrep
    \/ ApplyChangesExec
    \/ ApplyChangesPost

SpecApply == InitApply /\ [][NextApply]_vars

----------------------------------------------------------------------------
(* One decision round on every short response text *)

ParseToks ==
    { Fence("python"), Fence("yaml"), Fence("yml"), Fence(""),
      DocTok(MappingDoc([tool |-> "finish", reason |-> "why"])),
      DocTok(MappingDoc([tool |-> "read_file", reason |-> "why",
                         params |-> FullParams("read_file")])),
      CodeTok(<<"v">>) }

ParseTexts == UNION { [1 .. n -> ParseToks] : n \in 0 .. MaxTokens }

MainDecisionAgentParse == MainDecisionAgentOn(ParseTexts)

\* a run has just been started on an empty history
InitParse ==
    /\ node = "main_agent"
    /\ prev = ""
    /\ last_action = ""
    /\ history = <<>>
    /\ response = NoneVal
    /\ scratch = EmptyDict
    /\ file = InitialFile
    /\ runs = 1
    /\ run_base = 0
    /\ plan_calls = <<>>
    /\ llm_cache = EmptyDict
    /\ decision_calls = <<>>
    /\ process = {}
    /\ workdir = DefaultDir
    /\ qa_flow = NoFlow
    /\ API_DOC_STRINGS = NotBuilt
    /\ util_calls = <<>>
    /\ apply = ApplyIdle

NextParse == MainDecisionAgentParse

SpecParse == InitParse /\ [][NextParse]_vars

----------------------------------------------------------------------------
(* Runs that validate one candidate code after the other in one process *)

ValidateCodes == { <<c>> : c \in OutcomeChars }

ValidateTexts == { <<Fence("python"), CodeTok(c), Fence("")>> : c \in ValidateCodes }

MainDecisionAgentValidate == MainDecisionAgentOn(ValidateTexts)

NextValidate ==
    \/ StartRun
    \/ MainDecisionAgentValidate
    \/ CompileFileNode
    \/ FixCodeNode

SpecValidate == Init /\ [][NextValidate]_vars

----------------------------------------------------------------------------
(* Runs that go on for as long as the LLM asks for tools *)

\* the answers of the LLM: read a file, validate code that does not compile, validate
\* code that runs, finish
LiveTexts ==
    { Render(YamlResponse(MappingDoc([tool |-> t, reason |-> "why",
                                      params |-> FullParams(t)]))) :
        t \in {"read_file", "finish"} }
    \cup { <<Fence("python"), CodeTok(<<c>>), Fence("")>> : c \in {"s", "v"} }

\* the entries that can still make a difference: the nodes after the decision step
\* read history[-1] only, and the summary of the older entries goes to the LLM, whose
\* answer is any of LiveTexts; the entries before the last MaxHistory are left out
Recent(h) == IF Len(h) < MaxHistory THEN h ELSE Tail(h)

\* what exec makes of each answer
LiveAnswers == { Answer(t) : t \in LiveTexts }

MainDecisionAgentLive == MainDecisionAgentRound(LiveAnswers, Recent(history))

\* Flow._orch: the next node is run as soon as the previous one has returned
LiveSteps ==
    \/ MainDecisionAgentLive
    \/ ReadFileAction
    \/ CompileFileNode
    \/ FixCodeNode
    \/ FormatResponseNode

NextLive ==
    \/ StartRun
    \/ LiveSteps

\* every node and every LLM call returns, so a run that can take a step takes one
SpecLive == Init /\ [][NextLive]_vars /\ WF_vars(LiveSteps)

----------------------------------------------------------------------------
(* Runs of the search and read tools in working directories of several kinds *)

\* the working directories: the default one, one whose .gitignore cannot be read, one
\* without files whose API sources do not parse, one with another API
SearchDirs ==
    { DefaultDir,
      WorkDir("unreadable", DefaultDir.tree, "cmtj"),
      WorkDir("none", <<>>, "broken"),
      WorkDir("ok", DefaultDir.tree, "layers") }

\* the queries: an entry's exact name, the same in lower case, a word of docstrings,
\* a pattern that does not compile, a word of a file
Queries == {"Junction", "junction", "layer", "(", "q"}

SearchDecisions ==
    { [tool |-> "search_api_docstrings_regex", reason |-> "why", params |-> [query |-> q]] :
        q \in Queries }
    \cup { [tool |-> "grep_search", reason |-> "why", params |-> [query |-> q]] :
             q \in {"q", "("} }
    \cup { [tool |-> "read_file", reason |-> "why", params |-> FullParams("read_file")],
           [tool |-> "list_dir", reason |-> "why", params |-> EmptyDict] }

SearchTexts == { Render(YamlResponse(MappingDoc(d))) : d \in SearchDecisions }

MainDecisionAgentSearch == MainDecisionAgentOn(SearchTexts)

InitSearch ==
    /\ node = "idle"
    /\ prev = ""
    /\ last_action = ""
    /\ history = <<>>
    /\ response = NoneVal
    /\ scratch = EmptyDict
    /\ file = InitialFile
    /\ runs = 0
    /\ run_base = 0
    /\ plan_calls = <<>>
    /\ llm_cache = EmptyDict
    /\ decision_calls = <<>>
    /\ process = {}
    /\ workdir \in SearchDirs
    /\ qa_flow = NoFlow
    /\ API_DOC_STRINGS = NotBuilt
    /\ util_calls = <<>>
    /\ apply = ApplyIdle

NextSearch ==
    \/ StartRun
    \/ MainDecisionAgentSearch
    \/ ReadFileAction
    \/ GrepSearchActionIn
    \/ ListDirAction
    \/ SearchDocstringIn

SpecSearch == InitSearch /\ [][NextSearch]_vars

----------------------------------------------------------------------------
(* The first step of every executor, on decisions that leave parameters out *)

Restrict(d, keys) == [k \in keys |-> d[k]]

\* the params the LLM may give a tool: any part of the complete ones
ParamSubsets(tool) ==
    { Restrict(FullParams(tool), keys) : keys \in SUBSET DOMAIN FullParams(tool) }

ParamsDecisions ==
    UNION { { [tool |-> t, reason |-> "why", params |-> p] : p \in ParamSubsets(t) } :
              t \in {"read_file", "edit_file", "create_new_file", "grep_search", "list_dir",
                     "search_api_docstrings_regex", "validate_code"} }

ParamsTexts == { Render(YamlResponse(MappingDoc(d))) : d \in ParamsDecisions }

MainDecisionAgentParams == MainDecisionAgentOn(ParamsTexts)

NextParams ==
    \/ StartRun
    \/ MainDecisionAgentParams
    \/ ReadFileAction
    \/ GrepSearchAction
    \/ ListDirAction
    \/ SearchDocstring
    \/ CreateNewFileNode
    \/ CompileFileNode
    \/ ReadTargetFileNode

SpecParams == Init /\ [][NextParams]_vars

----------------------------------------------------------------------------
(* grep_search called on directories with many matching lines *)

\* how many calls a caller of the utilities makes
MaxCalls == 3

\* a sequence of n times the word w
Repeat(w, n) == [i \in 1 .. n |-> w]

\* the numbers of matching lines of a file, around the limit
LineCounts == {0, 1, 25, 49, 50, 51}

\* two directories: the first with one file, the second with a file, a file left out
\* by the patterns and a file that cannot be opened; each file has its matching
\* lines "q" and one line "z"
GrepDirs ==
    { WorkDir("ok",
              << <<File("a.py", Repeat("q", n) \o <<"z">>, FALSE, TRUE)>>,
                 <<File("b.py", <<"z">> \o Repeat("q", m), FALSE, TRUE),
                   File("c.pyc", Repeat("q", 2), TRUE, TRUE),
                   File("d.py", Repeat("q", 2), FALSE, FALSE)>> >>,
              "cmtj") : n, m \in LineCounts }

GrepQueries == {"q", "z", "("}

InitGrep ==
    /\ node = "idle"
    /\ prev = ""
    /\ last_action = ""
    /\ history = <<>>
    /\ response = NoneVal
    /\ scratch = EmptyDict
    /\ file = InitialFile
    /\ runs = 0
    /\ run_base = 0
    /\ plan_calls = <<>>
    /\ llm_cache = EmptyDict
    /\ decision_calls = <<>>
    /\ process = {}
    /\ workdir \in GrepDirs
    /\ qa_flow = NoFlow
    /\ API_DOC_STRINGS = NotBuilt
    /\ util_calls = <<>>
    /\ apply = ApplyIdle

\* a call grep_search(query, case_sensitive, working_dir=workdir)
CallGrepSearch ==
    /\ Len(util_calls) < MaxCalls
    /\ \E query \in GrepQueries, case_sensitive \in BOOLEAN :
         util_calls' = Append(util_calls,
                              [fn |-> "grep_search",
                               args |-> [query |-> query, case_sensitive |-> case_sensitive],
                               ret |-> grep_search(query, case_sensitive, workdir)])
    /\ UNCHANGED <<node, prev, last_action, history, response, scratch, file, runs, run_base,
                   plan_calls, llm_cache, decision_calls, process, workdir, qa_flow, API_DOC_STRINGS,
                   apply>>

NextGrep == CallGrepSearch

SpecGrep == InitGrep /\ [][NextGrep]_vars

----------------------------------------------------------------------------
(* call_llm called with several models and prompts on one cache file *)

\* model names and prompts, as sequences of characters; a model name may hold a
\* colon, as the names of fine-tuned models do
LlmModels == { <<"a">>, <<"a", ":", "b">> }

LlmPrompts == { <<"c">>, <<"b", ":", "c">> }

\* what the LLM backend answers when it is asked
LlmAnswers == {"r1", "r2"}

\* a call call_llm(prompt, use_cache, model); the cache file is there, readable and
\* writable
CallLlm ==
    /\ Len(util_calls) < MaxCalls
    /\ \E prompt \in LlmPrompts, model \in LlmModels, use_cache \in BOOLEAN,
          answer \in LlmAnswers :
         LET r == call_llm(llm_cache, prompt, use_cache, model, answer)
         IN  /\ llm_cache' = r.cache
             /\ util_calls' = Append(util_calls,
                                     [fn |-> "call_llm",
                                      args |-> [prompt |-> prompt, use_cache |-> use_cache,
                                                model |-> model],
                                      ret |-> r.response,
                                      invoked |-> ~r.hit])
    /\ UNCHANGED <<node, prev, last_action, history, response, scratch, file, runs, run_base,
                   plan_calls, decision_calls, process, workdir, qa_flow, API_DOC_STRINGS, apply>>

NextCache == CallLlm

SpecCache == Init /\ [][NextCache]_vars

----------------------------------------------------------------------------
(* Two call_llm calls in progress at the same time on one cache file *)

\* a call call_llm(prompt, True, model) that has just been entered: where it is in the
\* function, the cache dict it holds, its response, and whether another call has
\* written the file since this one opened it for writing
RaceCall(prompt, model) ==
    [fn |-> "call_llm", args |-> [prompt |-> prompt, use_cache |-> TRUE, model |-> model],
     pc |-> "load", cache |-> EmptyDict, ret |-> "", overwritten |-> FALSE]

\* the cache file before the calls: empty, or holding the answer to another prompt
RaceCaches == { EmptyDict, Put(EmptyDict, cache_key(DefaultModel, <<"z">>), "r0") }

\* two threads or processes enter call_llm with different prompts
InitRace ==
    /\ node = "idle"
    /\ prev = ""
    /\ last_action = ""
    /\ history = <<>>
    /\ response = NoneVal
    /\ scratch = EmptyDict
    /\ file = InitialFile
    /\ runs = 0
    /\ run_base = 0
    /\ plan_calls = <<>>
    /\ llm_cache \in RaceCaches
    /\ decision_calls = <<>>
    /\ process = {}
    /\ workdir = DefaultDir
    /\ qa_flow = NoFlow
    /\ API_DOC_STRINGS = NotBuilt
    /\ \E p1 \in LlmPrompts, m1 \in LlmModels, m2 \in LlmModels :
         \E p2 \in LlmPrompts \ {p1} :
           util_calls = <<RaceCall(p1, m1), RaceCall(p2, m2)>>
    /\ apply = ApplyIdle

\* the key of a call in progress
CallKey(c) == cache_key(c.args.model, c.args.prompt)

\* call i goes from pc at to the state next, the cache file becoming content
RaceStep(i, at, next, content) ==
    /\ util_calls[i].pc = at
    /\ util_calls' = [util_calls EXCEPT ![i] = next]
    /\ llm_cache' = content
    /\ UNCHANGED <<node, prev, last_action, history, response, scratch, file, runs, run_base,
                   plan_calls, decision_calls, process, workdir, qa_flow, API_DOC_STRINGS, apply>>

\* the first load of the cache file and the lookup; a file that another call has
\* truncated does not parse and is taken as the empty cache
LlmLoadCache ==
    \E i \in DOMAIN util_calls :
      LET c == util_calls[i]
      IN  RaceStep(i, "load",
                   IF CallKey(c) \in DOMAIN llm_cache
                   THEN [c EXCEPT !.cache = llm_cache, !.ret = llm_cache[CallKey(c)],
                                  !.pc = "done"]
                   ELSE [c EXCEPT !.cache = llm_cache, !.pc = "ask"],
                   llm_cache)

\* the request to the LLM backend
LlmAskBackend ==
    \E i \in DOMAIN util_calls : \E answer \in LlmAnswers :
      RaceStep(i, "ask", [util_calls[i] EXCEPT !.ret = answer, !.pc = "reload"], llm_cache)

\* the second load of the cache file, before the update
LlmReloadCache ==
    \E i \in DOMAIN util_calls :
      RaceStep(i, "reload", [util_calls[i] EXCEPT !.cache = llm_cache, !.pc = "open"],
               llm_cache)

\* open(cache_file, "w"): the file is truncated
LlmOpenCache ==
    \E i \in DOMAIN util_calls :
      RaceStep(i, "open", [util_calls[i] EXCEPT !.pc = "dump"], EmptyDict)

\* json.dump and close: the file holds the dict of this call; where another call has
\* written the file in between, the bytes of this one go over those, and the file
\* holds this call's dict or, when the other text was longer, no JSON text at all,
\* which every later load takes as the empty cache
LlmDumpCache ==
    \E i \in DOMAIN util_calls :
      LET c == util_calls[i]
          written == Put(c.cache, CallKey(c), c.ret)
      IN  \E content \in IF c.overwritten THEN {written, EmptyDict} ELSE {written} :
            /\ c.pc = "dump"
            /\ util_calls' = [j \in DOMAIN util_calls |->
                                IF j = i THEN [c EXCEPT !.pc = "done"]
                                ELSE IF util_calls[j].pc = "dump"
                                THEN [util_calls[j] EXCEPT !.overwritten = TRUE]
                                ELSE util_calls[j]]
            /\ llm_cache' = content
            /\ UNCHANGED <<node, prev, last_action, history, response, scratch, file, runs,
                           run_base, plan_calls, decision_calls, process, workdir, qa_flow,
                           API_DOC_STRINGS, apply>>

NextRace ==
    \/ LlmLoadCache
    \/ LlmAskBackend
    \/ LlmReloadCache
    \/ LlmOpenCache
    \/ LlmDumpCache

SpecRace == InitRace /\ [][NextRace]_vars

----------------------------------------------------------------------------
(* The QA flow (search_agent.py) *)

QaNodes == {"generate_queries", "batch_search", "web_search", "synthesize_answer"}

\* a >> b: BaseNode.next(b, "default") sets successors["default"], replacing the
\* successor a had for that label
Connect(successors, a, b) == [successors EXCEPT ![a] = Put(@, "default", b)]

\* qa_agent(allow_web_search): the >> statements in the order they are executed
qa_agent(allow_web_search) ==
    LET s0 == [n \in QaNodes |-> EmptyDict]
        s1 == Connect(s0, "generate_queries", "batch_search")
        s2 == Connect(s1, "batch_search", "synthesize_answer")
        s3 == Connect(s2, "generate_queries", "web_search")
        s4 == Connect(s3, "web_search", "synthesize_answer")
    IN  [allow_web_search |-> allow_web_search,
         successors |-> IF allow_web_search THEN s4 ELSE s2]

\* the user's questions, as sequences of characters; the empty one is falsy
UserQueries == { <<>>, <<"p">>, <<"p", "q">>, <<"p", "q", "r">> }

\* the sub-query lists the LLM gives
SubQueryLists == { <<>>, << <<"s">> >>, << <<"s">>, <<"t">> >> }

\* what a web search returns: the text for no result, or a text with results
NoWebResults == "No web search results found."

WebTexts == { NoWebResults, "Web search results:" }

\* run_qa_agent: shared holds the user's question, the flow starts at generate_queries
InitQA ==
    /\ node = "generate_queries"
    /\ prev = ""
    /\ last_action = ""
    /\ history = <<>>
    /\ response = NoneVal
    /\ \E user_query \in UserQueries : scratch = Put(EmptyDict, "user_query", user_query)
    /\ file = InitialFile
    /\ runs = 1
    /\ run_base = 0
    /\ plan_calls = <<>>
    /\ llm_cache = EmptyDict
    /\ decision_calls = <<>>
    /\ process = {}
    /\ workdir = DefaultDir
    /\ \E allow_web_search \in BOOLEAN : qa_flow = qa_agent(allow_web_search)
    /\ API_DOC_STRINGS = NotBuilt
    /\ util_calls = <<>>
    /\ apply = ApplyIdle

\* Flow._orch on the QA flow: the successor of curr for the label post returned
QaGoto(curr, action) ==
    /\ node' = Get(qa_flow.successors[curr], action, "stopped")
    /\ prev' = curr
    /\ last_action' = action

\* the exec calls of a batch node on items, with the results res
ExecCalls(fn, items, res) ==
    [i \in DOMAIN items |-> [fn |-> fn, args |-> items[i], ret |-> res[i]]]

\* GenerateSubQueries: prep, exec (one LLM call; a response without the YAML block or
\* without the two keys raises), post
GenerateSubQueries ==
    /\ node = "generate_queries"
    /\ \E ok \in BOOLEAN, sub_queries \in SubQueryLists :
         IF Get(scratch, "user_query", <<>>) = <<>> \/ ~ok
         THEN /\ Raise("generate_queries")
              /\ UNCHANGED scratch
         ELSE LET exec_res == [main_query |-> scratch["user_query"],
                               sub_queries |-> sub_queries]
              IN  /\ scratch' = Put(Put(scratch, "all_queries",
                                         <<exec_res.main_query>> \o exec_res.sub_queries),
                                     "query_breakdown", exec_res)
                  /\ QaGoto("generate_queries", "default")
    /\ UNCHANGED <<history, response, file, runs, run_base, plan_calls, llm_cache,
                   decision_calls, process, workdir, qa_flow, API_DOC_STRINGS, util_calls,
                   apply>>

\* BatchSearchDocuments: exec once per query of all_queries, a failing retrieval
\* giving a result with success False; post stores the list
BatchSearchDocuments ==
    /\ node = "batch_search"
    /\ LET items == scratch["all_queries"]
       IN  \E success \in [DOMAIN items -> BOOLEAN] :
             LET exec_res_list == [i \in DOMAIN items |->
                                     [query |-> items[i], success |-> success[i]]]
             IN  /\ util_calls' = util_calls
                                    \o ExecCalls("BatchSearchDocuments.exec", items,
                                                  exec_res_list)
                 /\ scratch' = Put(scratch, "search_results", exec_res_list)
    /\ QaGoto("batch_search", "default")
    /\ UNCHANGED <<history, response, file, runs, run_base, plan_calls, llm_cache,
                   decision_calls, process, workdir, qa_flow, API_DOC_STRINGS, apply>>

\* WebSearch, a BatchNode whose prep returns the question itself: BatchNode._exec
\* iterates over it, so exec runs once per character; post stores the list of texts
WebSearch ==
    /\ node = "web_search"
    /\ LET items == [i \in DOMAIN scratch["user_query"] |-> <<scratch["user_query"][i]>>]
       IN  \E exec_res \in [DOMAIN items -> WebTexts] :
             /\ util_calls' = util_calls \o ExecCalls("WebSearch.exec", items, exec_res)
             /\ scratch' = Put(scratch, "web_search_results", exec_res)
    /\ QaGoto("web_search", "default")
    /\ UNCHANGED <<history, response, file, runs, run_base, plan_calls, llm_cache,
                   decision_calls, process, workdir, qa_flow, API_DOC_STRINGS, apply>>

\* the answer the LLM writes
Answer0 == "answer"

\* SynthesizeFinalAnswer: exec takes the distinct web results as the context when
\* there is one and it is the text for no result, and else reads title, snippet and
\* url of each, which raises for a text; post stores the answer and returns it
SynthesizeFinalAnswer ==
    /\ node = "synthesize_answer"
    /\ LET web_search_results == Get(scratch, "web_search_results", <<>>)
           distinct == { web_search_results[i] : i \in DOMAIN web_search_results }
       IN  IF distinct = {} \/ distinct = {NoWebResults}
           THEN /\ response' = StrVal(Answer0)
                /\ QaGoto("synthesize_answer", Answer0)
           ELSE /\ Raise("synthesize_answer")
                /\ UNCHANGED response
    /\ UNCHANGED <<history, scratch, file, runs, run_base, plan_calls, llm_cache,
                   decision_calls, process, workdir, qa_flow, API_DOC_STRINGS, util_calls,
                   apply>>

NextQA ==
    \/ GenerateSubQueries
    \/ BatchSearchDocuments
    \/ WebSearch
    \/ SynthesizeFinalAnswer

SpecQA == InitQA /\ [][NextQA]_vars

----------------------------------------------------------------------------
(* The docstring searches called with several queries and API source trees *)

\* the API source trees a caller passes as working_dir: two that parse, one whose
\* sources do not parse, one without sources
ApiDirs == {"cmtj", "layers", "broken", "none"}

\* a call get_api_docstrings(query, working_dir, free_text); the log keeps the
\* working_dir and whether the call raised
CallGetApiDocstrings ==
    /\ Len(util_calls) < MaxCalls
    /\ \E query \in Queries, api \in ApiDirs, free_text \in BOOLEAN :
         LET r == get_api_docstrings(query, api, free_text, API_DOC_STRINGS)
         IN  /\ API_DOC_STRINGS' = r.index
             /\ util_calls' = Append(util_calls,
                                     [fn |-> "get_api_docstrings",
                                      args |-> [working_dir |-> api],
                                      raised |-> r.raised])
    /\ UNCHANGED <<node, prev, last_action, history, response, scratch, file, runs, run_base,
                   plan_calls, llm_cache, decision_calls, process, workdir, qa_flow, apply>>

\* a call search_api_docstrings_regex(query, working_dir, case_sensitive, max_results)
CallSearchApiDocstringsRegex ==
    /\ Len(util_calls) < MaxCalls
    /\ \E query \in Queries, api \in ApiDirs, case_sensitive \in BOOLEAN,
          max_results \in {1, MaxResults} :
         LET r == search_api_docstrings_regex(query, api, case_sensitive, max_results,
                                              API_DOC_STRINGS)
         IN  /\ API_DOC_STRINGS' = r.index
             /\ util_calls' = Append(util_calls,
                                     [fn |-> "search_api_docstrings_regex",
                                      args |-> [working_dir |-> api],
                                      raised |-> r.raised])
    /\ UNCHANGED <<node, prev, last_action, history, response, scratch, file, runs, run_base,
                   plan_calls, llm_cache, decision_calls, process, workdir, qa_flow, apply>>

NextIndex ==
    \/ CallGetApiDocstrings
    \/ CallSearchApiDocstringsRegex

SpecIndex == Init /\ [][NextIndex]_vars

----------------------------------------------------------------------------
(* Properties of the main flow *)

Open(i) == history[i].result = NoneVal

\* a node has run and the flow goes on to another one
BetweenNodes == prev # "" /\ node \notin {"idle", "stopped", "error"}

\* C1 as claimed: between any two node executions exactly one history entry has its
\* result unset, and it is the last one.
C1_ExactlyOneOpen ==
    BetweenNodes =>
        /\ Cardinality({i \in DOMAIN history : Open(i)}) = 1
        /\ Open(Len(history))

\* C1, amended: at every point of a run at most one of the entries appended during
\* that run has its result unset, and it is the last element of history; every
\* earlier entry of the run has a result. (There may be no open entry, and an entry
\* left open when an earlier run ended, as every finish entry is, stays open.)
C1_AtMostLastOfRunOpen ==
    \A i \in DOMAIN history :
        run_base < i /\ i < Len(history) => ~Open(i)

\* the second run has closed its first entry and opened its second, while the finish
\* entry of the first run is still open
C1_Witness ==
    /\ Len(history) = 3
    /\ history[1].tool = "finish" /\ Open(1) /\ run_base = 1
    /\ history[2].tool = "read_file" /\ ~Open(2)
    /\ history[3].tool = "grep_search" /\ Open(3)

\* the Fix step ran to completion (its post returned)
FixCompleted == prev = "fix_code_node" /\ node # "error"

\* C2: whenever the Fix step completes, the next node executed is the Validate step
\* (CompileFileNode), for every text the LLM returns as the fix.
C2_FixThenValidate ==
    FixCompleted => node = "compile_file_node"

\* C3: when the Fix step returned code that validates successfully, the validation
\* that follows is applied to that code: Validate runs next, on a code_content that
\* is the fixed text (last_action holds the first character of the text Fix returned,
\* which decides how the text validates).
C3_FixedCodeIsRevalidated ==
    FixCompleted /\ validate_code(<<last_action>>).success =>
        /\ node = "compile_file_node"
        /\ Outcome(LastParams.code_content) = last_action

\* C4: a run stops normally only after the decision engine chose finish and the
\* response formatter has set response; no tool label makes it stop with response unset.
C4_StopsOnlyAfterFinish ==
    node = "stopped" =>
        /\ prev = "format_response"
        /\ Last(history).tool = "finish"
        /\ response # NoneVal

SimpleExecutors ==
    {"read_action", "grep_action", "list_dir_action", "docstring_node", "create_new_file"}

\* C5: after an action executor, after the exit of the edit sub-flow and after a
\* successful validation the next node is the decision engine, whatever the outcome
\* the executor recorded; after a finish decision the next node is the response
\* formatter, and no node runs after it.
C5_BackToDecisionEngine ==
    /\ prev \in SimpleExecutors /\ node # "error" => node = "main_agent"
    /\ prev = "apply_changes" /\ node # "error" => node = "main_agent"
    /\ prev = "compile_file_node" /\ last_action = "compilation_success" => node = "main_agent"
    /\ prev = "main_agent" /\ last_action = "finish" => node = "format_response"
    /\ prev = "format_response" => node = "stopped"

\* a read that failed is followed by the decision engine
C5_Witness ==
    /\ prev = "read_action"
    /\ ~Open(Len(history)) /\ ~Last(history).result.success
    /\ node = "main_agent"

\* the apply step of the edit sub-flow has run to completion
ApplyCompleted == prev = "apply_changes" /\ node # "error"

\* C6: after the apply step, result.success of the open entry is true exactly when
\* every edit operation succeeded and the post-edit validation of the file reported no
\* error (no validation runs when there was no operation).
C6_SuccessIffAllSucceeded ==
    ApplyCompleted =>
        ( Last(history).result.success
          <=> /\ \A i \in DOMAIN apply.res : apply.res[i].success
              /\ apply.ops = <<>> \/ validate_code(file.lines).success )

----------------------------------------------------------------------------
(* Properties of the edit sub-flow *)

\* every operation of the batch has been applied
AllApplied == apply.phase # "idle" /\ apply.i > Len(apply.ops)

RECURSIVE Flatten(_)
Flatten(seqs) == IF seqs = <<>> THEN <<>> ELSE Head(seqs) \o Flatten(Tail(seqs))

\* the text obtained from the lines by replacing, for each operation, the lines
\* start_line..end_line as numbered in lines by its replacement: at each position the
\* replacements of the operations that start there, then the line unless an operation
\* covers it
ReplacedAtOriginalOffsets(lines, ops) ==
    LET At(p) ==
            LET starting == SelectSeq(ops, LAMBDA op : op.start_line = p)
                covered == \E i \in DOMAIN ops :
                               ops[i].start_line <= p /\ p <= ops[i].end_line
            IN  Flatten([i \in DOMAIN starting |-> starting[i].replacement])
                \o (IF p <= Len(lines) /\ ~covered THEN <<lines[p]>> ELSE <<>>)
    IN  Flatten([p \in 1 .. Len(lines) + 1 |-> At(p)])

\* every operation of the batch lies within the lines of the file as it was before
\* the batch (the plan step accepted them, so 1 <= start_line <= end_line)
WithinOriginal ==
    \A i \in DOMAIN apply.ops : apply.ops[i].end_line <= Len(apply.orig.lines)

\* C7: for every list of operations the plan step accepted, each within the lines of
\* the file, the file after the apply step is the original file with the lines
\* start_line..end_line of each operation, as numbered in the original, replaced by
\* its replacement.
C7_ResultMatchesOriginalOffsets ==
    AllApplied /\ WithinOriginal =>
        file.lines = ReplacedAtOriginalOffsets(apply.orig.lines, apply.ops)

Count(seq, x) == Cardinality({i \in DOMAIN seq : seq[i] = x})

\* C8: the operations are applied one at a time in non-increasing start_line order,
\* whatever the order the plan lists them in, and once the batch is through each
\* planned operation has been applied exactly once.
C8_AppliedBottomToTop ==
    /\ \A i, j \in DOMAIN apply.applied :
           i < j => apply.applied[i].start_line >= apply.applied[j].start_line
    /\ Len(apply.res) = Len(apply.applied)
    /\ AllApplied /\ apply.phase = "exec" =>
           LET planned == Get(scratch, "edit_operations", <<>>)
           IN  /\ Len(apply.applied) = Len(planned)
               /\ \A i \in DOMAIN planned :
                      Count(apply.applied, planned[i]) = Count(planned, planned[i])

\* a plan that lists the lower operation first has been applied, the higher one first
C8_Witness ==
    /\ AllApplied /\ apply.phase = "exec"
    /\ Len(scratch.edit_operations) = 2
    /\ scratch.edit_operations[1].start_line < scratch.edit_operations[2].start_line
    /\ apply.applied = <<scratch.edit_operations[2], scratch.edit_operations[1]>>

\* the plan step has called the LLM and returned or raised
PlanCompleted == prev = "analyze_plan" /\ plan_calls # <<>>

\* the response plans one operation, at the line after the last line of the file
IsAppendPlan(resp) ==
    /\ resp.fence # "none" /\ resp.doc.kind = "mapping"
    /\ DOMAIN resp.doc.map = {"reasoning", "operations"}
    /\ resp.doc.map.operations.is_list
    /\ Len(resp.doc.map.operations.items) = 1
    /\ LET op == resp.doc.map.operations.items[1]
           file_content == Get(Last(history), "file_content", EmptyText)
       IN  /\ DOMAIN op = {"start_line", "end_line", "replacement"}
           /\ op.start_line = Len(file_content.lines) + 1
           /\ op.end_line = Len(file_content.lines) + 1

\* C9: a plan whose operation has start_line = end_line = number of lines of the
\* target file + 1 is accepted by the plan step (and then applied as an append).
C9_AppendAccepted ==
    PlanCompleted /\ IsAppendPlan(Last(plan_calls).response) => node # "error"

\* C10 as claimed: the plan step fails fatally only after the third response, every
\* bad response before it having led to another call.
C10_FatalOnlyAfterThirdResponse ==
    PlanCompleted /\ node = "error" => Len(plan_calls) = DEFAULT_RETRIES + 1

\* no YAML text can be taken from the response: it has no fenced block, or an empty one
NoYamlText(resp) == resp.fence = "none" \/ resp.doc.kind = "empty"

\* C10, amended: the LLM is called again, up to 2 extra times, only after a response
\* from which no YAML text can be taken, and the step fails fatally after the third
\* such response. A response with YAML text ends the step at once: fatally when the
\* YAML is unparsable or no mapping, lacks reasoning or operations, has operations
\* that are no list, or an operation that lacks a field or has a bound out of range.
C10_RetryOnlyWithoutYaml ==
    PlanCompleted =>
        LET n == Len(plan_calls)
            last == plan_calls[n].response
            total_lines == TotalLines(Get(Last(history), "file_content", EmptyText))
        IN  /\ n <= DEFAULT_RETRIES + 1
            /\ \A i \in 1 .. n - 1 : NoYamlText(plan_calls[i].response)
            /\ NoYamlText(last) => n = DEFAULT_RETRIES + 1
            /\ node = "error" <=> \/ NoYamlText(last)
                                  \/ PlanAttempt(last, total_lines) = "raise"

\* a response without YAML text was followed by one whose operation is out of range,
\* which ended the step
C10_Witness ==
    /\ PlanCompleted /\ node = "error"
    /\ Len(plan_calls) = 2
    /\ NoYamlText(plan_calls[1].response)
    /\ plan_calls[2].response = PlanResponse("yaml", PlanDoc(<<Op(0, 1, <<"X">>)>>))

\* the cache key of the plan step's prompt for the open entry
PlanKey ==
    cache_key(DefaultModel,
              PlanPrompt(Get(Last(history), "file_content", EmptyText),
                         LastParams.instructions, LastParams.code_edit))

\* C11: one execution of the plan step makes at most 3 call_llm calls; the first is
\* made with use_cache = true and every retry with use_cache = false, so that no retry
\* is answered by the cache or writes its answer to it: the cache entry of the prompt
\* holds the response of the first call, whatever the retries returned.
C11_OnlyFirstCallCached ==
    PlanCompleted =>
        /\ Len(plan_calls) <= DEFAULT_RETRIES + 1
        /\ plan_calls[1].use_cache
        /\ \A i \in 2 .. Len(plan_calls) :
               /\ ~plan_calls[i].use_cache
               /\ ~plan_calls[i].hit
               /\ ~plan_calls[i].stored
        /\ PlanKey \in DOMAIN llm_cache
        /\ llm_cache[PlanKey] = plan_calls[1].response

\* the cache answered the first call without YAML text, and the second retry got a
\* plan from the LLM
C11_Witness ==
    /\ PlanCompleted /\ node = "apply_changes"
    /\ Len(plan_calls) = 3
    /\ plan_calls[1].hit
    /\ plan_calls[3].response # llm_cache[PlanKey]

----------------------------------------------------------------------------
(* Properties of the history *)

\* C12 as claimed: once the result of an entry is set, no step changes the entry.
C12_ClosedEntryNeverChanges ==
    [][\A i \in DOMAIN history : ~Open(i) => history'[i] = history[i]]_vars

\* C12, amended: the result of an entry is set by the executor of its tool, and a
\* step changes an entry whose result is set in one case only: the entry is the last
\* one, its tool is validate_code, its validation failed, and the step is the Fix step,
\* which overwrites the result Validate wrote and leaves the other fields alone.
C12_ClosedEntryChangedOnlyByFix ==
    [][\A i \in DOMAIN history :
          ~Open(i) =>
              \/ history'[i] = history[i]
              \/ /\ i = Len(history)
                 /\ history[i].tool = "validate_code"
                 /\ ~history[i].result.success
                 /\ node = "fix_code_node" /\ prev' = "fix_code_node"
                 /\ history'[i] = [history[i] EXCEPT !.result = history'[i].result]]_vars

\* the Fix step has overwritten the result of a validate_code entry with the first
\* two characters of the LLM's text
C12_Witness ==
    /\ FixCompleted
    /\ Last(history).tool = "validate_code"
    /\ Last(history).result.compilation_errors = "v"
    /\ ~Last(history).result.success

\* C13: history is append-only. A step changes the length of history only when it is
\* the decision engine's, which appends exactly one entry, with result unset, behind
\* the unchanged entries; every other step keeps the length and the order and changes
\* at most the last entry.
C13_AppendOnly ==
    [][history' # history =>
          IF node = "main_agent"
          THEN /\ Len(history') = Len(history) + 1
               /\ SubSeq(history', 1, Len(history)) = history
               /\ Last(history').result = NoneVal
          ELSE /\ Len(history') = Len(history)
               /\ \A i \in 1 .. Len(history) - 1 : history'[i] = history[i]
               /\ Last(history').tool = Last(history).tool
               /\ Last(history').params = Last(history).params]_vars

\* three decision rounds have appended three entries, and the executors of the first
\* two have written their results
C13_Witness ==
    /\ Len(history) = 3
    /\ ~Open(1) /\ ~Open(2) /\ Open(3)
    /\ history[1].tool = "grep_search" /\ history[2].tool = "edit_file"

----------------------------------------------------------------------------
(* Properties of the decision engine *)

\* a decision round has completed and returned its label
DecisionTaken == prev = "main_agent" /\ node # "error"

\* the names of the tool enum
ToolEnum ==
    {"read_file", "grep_search", "list_dir", "search_api_docstrings", "edit_file",
     "create_new_file", "validate_code", "finish"}

\* C14 as claimed: for every name of the tool enum the decision engine has an edge
\* keyed by that name, so a decision for it is followed by a node.
C14_EdgePerEnumName ==
    DecisionTaken /\ last_action \in ToolEnum => node # "stopped"

\* the node a tool's edge leads to: its executor, or the start of the edit sub-flow
ExecutorOf ==
    [ read_file |-> "read_action",
      grep_search |-> "grep_action",
      list_dir |-> "list_dir_action",
      search_api_docstrings_regex |-> "docstring_node",
      edit_file |-> "read_target",
      create_new_file |-> "create_new_file",
      validate_code |-> "compile_file_node",
      finish |-> "format_response" ]

\* C14, amended: for every tool name read_file, grep_search, list_dir,
\* search_api_docstrings_regex, edit_file, create_new_file, validate_code and finish
\* the decision engine of the main flow has an edge keyed by that name, leading to
\* the tool's executor or sub-flow; it has no edge for the name search_api_docstrings,
\* after which the run stops.
C14_EdgePerToolLabel ==
    DecisionTaken =>
        /\ last_action \in DOMAIN ExecutorOf => node = ExecutorOf[last_action]
        /\ last_action = "search_api_docstrings" => node = "stopped"

\* the decision for the docstring tool has led to its executor
C14_Witness ==
    /\ DecisionTaken
    /\ last_action = "search_api_docstrings_regex"
    /\ node = "docstring_node"

\* a decision round has just ended, with an entry or with an error
DecisionEnded == prev = "main_agent"

HasBlock(text, tag) == \E i \in DOMAIN text : text[i] = Fence(tag)

\* the content of the first block of the text opened by the fence with the tag: the
\* pieces between that fence and the next fence, or the end of the text
FirstBlock(text, tag) ==
    LET i == CHOOSE i \in DOMAIN text :
                 text[i] = Fence(tag) /\ \A j \in 1 .. i - 1 : text[j] # Fence(tag)
        closing == {j \in i + 1 .. Len(text) : text[j].kind = "fence"}
        end == IF closing = {} THEN Len(text) + 1
               ELSE CHOOSE j \in closing : \A k \in closing : j <= k
    IN  SubSeq(text, i + 1, end - 1)

\* the part of a response without a python block that is read as the decision
SelectedBlock(text) ==
    IF HasBlock(text, "yaml") THEN FirstBlock(text, "yaml")
    ELSE IF HasBlock(text, "yml") THEN FirstBlock(text, "yml")
    ELSE IF HasBlock(text, "") THEN FirstBlock(text, "")
    ELSE text

\* C15: a response with a ```python block gives the decision validate_code on the
\* content of the first such block, whatever YAML it holds; otherwise the round ends
\* as it does on the content of the first ```yaml block alone, else of the first
\* ```yml block, else of the first untagged block, else on the whole text.
C15_BlockPriority ==
    DecisionEnded =>
        LET text == Last(decision_calls)
        IN  IF HasBlock(text, "python")
            THEN /\ node = "compile_file_node"
                 /\ Last(history) =
                        [tool |-> "validate_code", reason |-> "validate_code",
                         params |-> [code_content |-> CodeOf(FirstBlock(text, "python"))],
                         result |-> NoneVal]
            ELSE LET r == DecisionExec(ParseResponse(SelectedBlock(text)))
                 IN  IF r.raised
                     THEN node = "error"
                     ELSE node # "error" /\ Last(history) = NewEntry(r.decision)

\* a response with a yaml block holding a decision and, after it, a python block
\* has been read as validate_code
C15_Witness ==
    /\ DecisionEnded
    /\ Last(decision_calls) = <<Fence("yaml"),
                               DocTok(MappingDoc([tool |-> "finish", reason |-> "why"])),
                               Fence("python"), CodeTok(<<"v">>)>>
    /\ last_action = "validate_code"

\* the decision a response carries is no mapping, or lacks tool or reason, or lacks
\* params though its tool is not finish
MalformedDecision(text) ==
    LET doc == DocOf(SelectedBlock(text))
    IN  /\ ~HasBlock(text, "python")
        /\ \/ doc.kind # "mapping"
           \/ "tool" \notin DOMAIN doc.map
           \/ "reason" \notin DOMAIN doc.map
           \/ (doc.map.tool # "finish" /\ "params" \notin DOMAIN doc.map)

SharedUnchanged ==
    /\ history' = history
    /\ response' = response
    /\ scratch' = scratch

\* C16: a decision round whose response is malformed YAML, or lacks tool or reason, or
\* lacks params for a tool other than finish, ends with an error after that single
\* LLM call, appends no history entry and leaves the shared state as it was.
C16_MalformedDecisionIsFatal ==
    [][(node = "main_agent" /\ node' # "main_agent"
            /\ MalformedDecision(decision_calls'[1]))
        => /\ node' = "error"
           /\ Len(decision_calls') = 1
           /\ SharedUnchanged]_vars

\* a round after an earlier completed step has failed on a read_file decision
\* without params
C16_Witness ==
    /\ node = "error"
    /\ prev = "main_agent"
    /\ Len(history) > 0
    /\ Len(decision_calls) = 1
    /\ LET doc == DocOf(SelectedBlock(decision_calls[1]))
       IN  /\ doc.kind = "mapping"
           /\ DOMAIN doc.map = {"tool", "reason"}
           /\ doc.map.tool = "read_file"

\* the params of the decision the response text carries
DecisionParams(text) ==
    Get(DocOf(SelectedBlock(text)).map, "params", EmptyDict)

\* the code v with a python fence around it unless it holds a fence already
Fenced(v) ==
    IF \E i \in DOMAIN v : v[i].kind = "fence" THEN v
    ELSE <<Fence("python")>> \o v \o <<Fence("")>>

\* C17: after a finish decision whose params carry a non-empty final_version v, the
\* response the formatter stores is the prose summary followed by v in a fenced block.
C17_FinalVersionAppended ==
    (/\ prev = "format_response"
     /\ ~MalformedDecision(Last(decision_calls))
     /\ Get(DecisionParams(Last(decision_calls)), "final_version", <<>>) # <<>>)
    => response = StrVal(<<ProseTok(Prose)>>
                         \o Fenced(DecisionParams(Last(decision_calls)).final_version))

\* CompileFileNode is about to validate a code text
Validating ==
    /\ node = "compile_file_node"
    /\ Get(LastParams, "code_content", <<>>) # <<>>

\* what the code under validation does when it is executed now
Behaviour == Exec(LastParams.code_content, process).outcome

\* the messages that carry an error
ErrorMessages == {"Code has syntax errors", "Import error", "Code has runtime errors"}

\* C18 as stated: the validation succeeds exactly when the code runs cleanly, raises
\* an import error (of any module) or raises an error of a display library; every
\* other exception gives a failure with the error as the message.
C18_ImportAndDisplayErrorsPass ==
    [][Validating =>
        /\ node' # "error"
        /\ Last(history').result.success <=> Behaviour \in {"v", "i", "q", "m", "d"}
        /\ ~Last(history').result.success
              => Last(history').result.compilation_errors \in ErrorMessages]_vars

\* C18 (amended): the validation succeeds exactly when the code runs cleanly, raises
\* an ImportError whose message names matplotlib, display, gui or tkinter, or raises
\* another Exception whose message holds display, gui, x11, tkinter, qt or show; an
\* ImportError for any other module, a SyntaxError and every other Exception give a
\* failure with the error as the message; SystemExit is not caught and ends the run
\* with no result recorded.
C18_OnlyDisplayNamedErrorsPass ==
    [][Validating =>
        IF Behaviour = "x"
        THEN node' = "error" /\ history' = history
        ELSE /\ node' # "error"
             /\ Last(history').result.success <=> Behaviour \in {"v", "m", "d", "n"}
             /\ ~Last(history').result.success
                   => Last(history').result.compilation_errors \in ErrorMessages]_vars

\* a code whose import of a missing GUI library (PyQt5) failed has been judged a failure
C18_Witness ==
    /\ prev = "compile_file_node"
    /\ Outcome(Get(LastParams, "code_content", <<>>)) = "q"
    /\ Last(history).result # NoneVal
    /\ ~Last(history).result.success

ValidationOf(i) ==
    /\ history[i].tool = "validate_code"
    /\ history[i].result # NoneVal
    /\ history[i].result.code_content = StrVal(history[i].params.code_content)

\* C20: a code that validated successfully validates successfully at every later
\* validation in the same process, whatever was validated in between.
C20_SuccessIsRepeatable ==
    \A i, j \in DOMAIN history :
        (/\ i < j
         /\ ValidationOf(i) /\ ValidationOf(j)
         /\ history[i].params.code_content = history[j].params.code_content
         /\ history[i].result.success)
        => history[j].result.success

\* the docstring search has just recorded its result
DocstringCompleted == prev = "docstring_node" /\ node # "error"

\* the query of the open entry finds an entry of the index: one is named as the
\* query, or the query compiles and occurs somewhere in an entry
QueryFinds ==
    LET q == LastParams.query
        table == API_DOC_STRINGS.table
    IN  \/ \E k \in DOMAIN table : table[k].name = q
        \/ /\ RegexValid(q)
           /\ \E k \in DOMAIN table :
                 EntryMatches(table[k].name, table[k].info, q, FALSE) # <<>>

\* C21: a docstring search whose query finds an entry of the index, by the exact-name
\* lookup or by the regex search, records success = true and a non-empty matches
\* list; success = false is recorded only when nothing matched.
C21_FoundMeansSuccess ==
    DocstringCompleted =>
        /\ Last(history).result.success <=> QueryFinds
        /\ Last(history).result.success => Last(history).result.matches # <<>>

\* some line of the rendering names the location of the match record
Shows(lines, rec) ==
    \E j \in DOMAIN lines :
        /\ lines[j].key = "Reasons"
        /\ \E k \in DOMAIN lines[j].val : lines[j].val[k] = rec.location

\* C22: when the decision engine builds its prompt, every match record of every
\* matched entry of a successful docstring search is in the recorded result and is
\* shown in the history summary.
C22_MatchRecordsSurfaced ==
    node = "main_agent" =>
        \A i \in DOMAIN history :
            (/\ history[i].tool = "search_api_docstrings_regex"
             /\ history[i].result # NoneVal
             /\ history[i].result.success)
            => LET table == API_DOC_STRINGS.table
                   q == history[i].params.query
               IN  /\ history[i].result.matches = RegexLoop(table, 1, q, FALSE, MaxResults, <<>>)
                   /\ \A m \in DOMAIN history[i].result.matches :
                        \A r \in DOMAIN history[i].result.matches[m].matches :
                            Shows(format_history_summary(history)[i],
                                  history[i].result.matches[m].matches[r])

\* C24: a read_file, grep_search or list_dir step whose parameters are there never
\* ends the run with an error; when it records a failure the decision engine runs
\* next and its prompt shows the entry as failed.
C24_ToolFailureNeverAborts ==
    (/\ prev \in {"read_action", "grep_action", "list_dir_action"}
     /\ prev = "read_action" => "target_file" \in DOMAIN LastParams
     /\ prev = "grep_action" => "query" \in DOMAIN LastParams)
    => /\ node # "error"
       /\ ~Last(history).result.success
            => /\ node = "main_agent"
               /\ \E j \in DOMAIN format_history_summary(history)[Len(history)] :
                     format_history_summary(history)[Len(history)][j] = Line("Result", "Failed")

Creating ==
    /\ node = "create_new_file"
    /\ Get(LastParams, "target_file", "") # ""
    /\ Get(LastParams, "content", <<>>) # <<>>

\* C23: CreateNewFileNode records as result.success the flag the write returned;
\* after a successful write result.error is what the validation of
\* the written file says, after a failed write no validation message is recorded.
C23_SuccessIsTheWriteFlag ==
    [][Creating =>
        \E r \in InsertOutcomes(file, LastParams.content) :
            /\ file' = r.file
            /\ Last(history').result.success = BoolVal(r.success)
            /\ IF r.success
               THEN Last(history').result.error = StrVal(validate_file(r.file))
               ELSE Last(history').result.error # StrVal(validate_file(r.file))]_vars

\* the executor about to run lacks a parameter its tool requires
MissingParam ==
    LET given == DOMAIN LastParams
    IN  \/ node \in {"read_action", "read_target"} /\ "target_file" \notin given
        \/ node = "create_new_file" /\ ~({"target_file", "content"} \subseteq given)
        \/ node \in {"grep_action", "docstring_node"} /\ "query" \notin given
        \/ node = "compile_file_node" /\ "code_content" \notin given

\* C25: an executor whose entry lacks a required parameter raises before it reads,
\* writes, searches, executes or asks the LLM anything, and the run ends with the
\* entry's result unset; list_dir without a path lists "." of the working directory
\* and records its result.
C25_MissingParameterAborts ==
    [][/\ MissingParam =>
            /\ node' = "error"
            /\ history' = history /\ Open(Len(history))
            /\ UNCHANGED <<file, llm_cache, plan_calls, decision_calls, process,
                           API_DOC_STRINGS, response>>
       /\ (node = "list_dir_action" /\ LastParams = EmptyDict) =>
            /\ ListDirPath(LastParams) = "."
            /\ node' = "main_agent"
            /\ ~Open(Len(history))']_vars

\* create_new_file with a target but no content has ended the run
C25_Witness ==
    /\ node = "error"
    /\ prev = "create_new_file"
    /\ DOMAIN LastParams = {"target_file"}
    /\ Open(Len(history))

\* every line of the working directory that the query matches, in the order of the
\* scan: directory by directory, file by file (those left out or unreadable passed
\* over), line by line
AllMatches(query, case_sensitive, w) ==
    JoinAll([d \in DOMAIN w.tree |->
        JoinAll([k \in DOMAIN w.tree[d] |->
            LET f == w.tree[d][k]
            IN  IF f.skipped \/ ~f.readable THEN <<>>
                ELSE JoinAll([i \in DOMAIN f.lines |->
                        Opt(Search(query, case_sensitive, <<f.lines[i]>>),
                            [file |-> f.path, line_number |-> i,
                             content |-> f.lines[i]])])])])

\* the first n elements of a sequence
Take(seq, n) == SubSeq(seq, 1, IF Len(seq) < n THEN Len(seq) ELSE n)

\* C27: grep_search never returns more than 50 matches: what it returns for a valid
\* query is the matching lines in scan order up to the 50th, and nothing after it.
C27_AtMostFiftyMatches ==
    \A c \in DOMAIN util_calls :
        util_calls[c].fn = "grep_search" =>
            LET ret == util_calls[c].ret
                args == util_calls[c].args
            IN  /\ Len(ret.matches) <= GrepLimit
                /\ (ret.success /\ ~ret.raised) =>
                     ret.matches = Take(AllMatches(args.query, args.case_sensitive, workdir),
                                        GrepLimit)

\* a search has returned 50 matches from a directory that holds more matching lines,
\* the 50th of them in the second file
C27_Witness ==
    \E c \in DOMAIN util_calls :
        /\ util_calls[c].fn = "grep_search"
        /\ Len(util_calls[c].ret.matches) = GrepLimit
        /\ util_calls[c].ret.matches[GrepLimit].file = "b.py"
        /\ Len(AllMatches(util_calls[c].args.query, util_calls[c].args.case_sensitive,
                          workdir)) > GrepLimit

\* call c of the caller is a call_llm call with caching enabled
CachingCall(c) ==
    /\ util_calls[c].fn = "call_llm"
    /\ util_calls[c].args.use_cache

\* C28: of two caching call_llm calls with the same prompt and the same model, the
\* later returns what the earlier returned and does not ask the LLM backend; a
\* caching call whose key no earlier caching call had does ask it.
C28_SecondCallIsCached ==
    \A i, j \in DOMAIN util_calls :
        (CachingCall(i) /\ CachingCall(j) /\ i < j) =>
            /\ (/\ util_calls[i].args.prompt = util_calls[j].args.prompt
                /\ util_calls[i].args.model = util_calls[j].args.model)
               => /\ util_calls[j].ret = util_calls[i].ret
                  /\ ~util_calls[j].invoked
            /\ (\A k \in 1 .. j - 1 :
                    CachingCall(k) =>
                        cache_key(util_calls[k].args.model, util_calls[k].args.prompt)
                        # cache_key(util_calls[j].args.model, util_calls[j].args.prompt))
               => util_calls[j].invoked

\* the same prompt was sent twice to the same model, a different call in between, and
\* the third call was answered from the cache
C28_Witness ==
    /\ Len(util_calls) = 3
    /\ CachingCall(1) /\ CachingCall(3)
    /\ util_calls[1].args = util_calls[3].args
    /\ util_calls[2].args.prompt # util_calls[1].args.prompt
    /\ util_calls[1].invoked /\ ~util_calls[3].invoked
    /\ util_calls[3].ret = util_calls[1].ret

\* C29: two caching call_llm calls whose (model, prompt) pairs differ use different
\* cache entries: the later one is never answered with the entry of the earlier one.
C29_KeyIsInjective ==
    \A i, j \in DOMAIN util_calls :
        (/\ CachingCall(i) /\ CachingCall(j)
         /\ <<util_calls[i].args.model, util_calls[i].args.prompt>>
            # <<util_calls[j].args.model, util_calls[j].args.prompt>>)
        => cache_key(util_calls[i].args.model, util_calls[i].args.prompt)
           # cache_key(util_calls[j].args.model, util_calls[j].args.prompt)

\* C30: once the API doc index is built, no call of get_api_docstrings or
\* search_api_docstrings_regex, whatever its query and working_dir, builds it again
\* or changes the table.
C30_IndexBuiltOnce ==
    [][API_DOC_STRINGS.built => API_DOC_STRINGS' = API_DOC_STRINGS]_vars

\* the index was built from one API source tree by the first call, and a later call
\* that named another source tree has left it as it was
C30_Witness ==
    /\ Len(util_calls) >= 2
    /\ util_calls[1].args.working_dir = "cmtj"
    /\ util_calls[2].args.working_dir = "layers"
    /\ ~util_calls[2].raised
    /\ API_DOC_STRINGS = Built(build_api_docs("cmtj").table)

\* a run has just been started: the decision engine is about to run its first round
RunStarted == node = "main_agent" /\ prev = ""

\* C31: every run starts from a fresh shared state: the history is empty, the
\* response is unset and no scratch field of an earlier run is there.
C31_FreshSharedPerRun ==
    RunStarted =>
        /\ history = <<>>
        /\ response = NoneVal
        /\ scratch = EmptyDict

\* C32: within a run only the response formatter writes shared["response"], and it
\* runs last, so it writes at most once in the run; no node writes working_dir, and
\* user_query, the query of run number runs, changes only when a caller starts a run.
C32_ResponseWrittenByFormatterOnly ==
    [][/\ response' # response => node = "format_response"
       /\ node = "format_response" => node' = "stopped"
       /\ workdir' = workdir
       /\ runs' # runs => node \in {"idle", "stopped"}]_vars

\* the formatter has written the response of a run in which a tool ran first
C32_Witness ==
    /\ prev = "format_response"
    /\ node = "stopped"
    /\ response # NoneVal
    /\ Len(history) - run_base > 1

\* the apply step has run: the flow has left ApplyChangesNode
ApplyStepDone == prev = "apply_changes"

\* C33: whenever the apply step of the edit sub-flow has run, shared holds neither
\* edit_operations nor edit_reasoning, whether the operations succeeded or failed and
\* whether the validation of the edited file failed or raised
C33_ScratchClearedAfterApply ==
    ApplyStepDone =>
        /\ "edit_operations" \notin DOMAIN scratch
        /\ "edit_reasoning" \notin DOMAIN scratch

RunEnded == node \in {"stopped", "error"}

\* C35: every run a caller starts ends after a bounded number of node executions,
\* whatever the LLM answers: a run that has started comes to its end
C35_RunTerminates == RunStarted ~> RunEnded

\* C36: for every candidate code validate_code returns a (message, success) pair and
\* lets no exception of the candidate through, an exit request included: once
\* CompileFileNode has run on a candidate, a result is recorded and the flow has gone
\* on with compilation_success or compilation_error
C36_CompileAlwaysRecordsAndRoutes ==
    (prev = "compile_file_node" /\ Get(LastParams, "code_content", <<>>) # <<>>)
        => /\ node # "error"
           /\ Last(history).result # NoneVal
           /\ last_action \in {"compilation_success", "compilation_error"}

\* both calls have returned
BothReturned == \A i \in DOMAIN util_calls : util_calls[i].pc = "done"

\* C37: when two call_llm calls with caching and different prompts run at the same
\* time on one cache file, the file holds the entries of both once both have
\* returned, under every interleaving of their load and write steps
C37_BothEntriesCached ==
    BothReturned =>
        \A i \in DOMAIN util_calls :
            /\ CallKey(util_calls[i]) \in DOMAIN llm_cache
            /\ llm_cache[CallKey(util_calls[i])] = util_calls[i].ret

\* the arguments of the exec calls of a node of the QA flow, in order
ExecArgs(fn) ==
    LET calls == SelectSeq(util_calls, LAMBDA c : c.fn = fn)
    IN  [i \in DOMAIN calls |-> calls[i].args]

\* the document search has run once, on every query, and has stored its results
DocSearchRanOnce ==
    /\ ExecArgs("BatchSearchDocuments.exec") = scratch["all_queries"]
    /\ "search_results" \in DOMAIN scratch

\* the web search has run once, on the user's question, and has stored its results
WebSearchRanOnce ==
    /\ ExecArgs("WebSearch.exec") = <<scratch["user_query"]>>
    /\ "web_search_results" \in DOMAIN scratch

\* C38: in the flow of qa_agent(True) the document search and the web search both
\* run after the sub-query generation, each once, and the synthesis of the final
\* answer runs only after both have stored their results; in the flow of
\* qa_agent(False) only the document search runs before the synthesis
C38_BothSearchesBeforeSynthesis ==
    node = "synthesize_answer" =>
        /\ DocSearchRanOnce
        /\ IF qa_flow.allow_web_search
           THEN WebSearchRanOnce
           ELSE /\ ExecArgs("WebSearch.exec") = <<>>
                /\ "web_search_results" \notin DOMAIN scratch

====
